---- MODULE Spec2Model ----
(***************************************************************************)
(* brainfreeze: a Brainf*ck program hidden in the pixels of a PNG image.   *)
(* Model of the steganographic codec of src/src/img.rs: the distance       *)
(* primitives (pixel_distance, distance_to_kind, kind_to_distance,         *)
(* encoded_pixel), the encoder loop of write and the decoder loop of read. *)
(*                                                                         *)
(* Pixel k of the source (zero-based, row-major) is pixels[k + 1] here.    *)
(* A TokenKind is a tuple: <<"Increment", n>> for the four kinds with a    *)
(* payload, <<"EOF">> for the five without.  An Option is <<"Some", v>> or *)
(* <<"None">>; <<"Panic">> is the outcome of a call that aborts.           *)
(* Unsigned arithmetic that overflows has two outcomes, one per build      *)
(* profile: the abort of a build with overflow checks, and the wrapped     *)
(* value of a build without them.                                          *)
(***************************************************************************)
EXTENDS Integers, Sequences, FiniteSets, TLC

VARIABLES
    call,            \* the call of a distance primitive under evaluation
    ret,             \* its outcome, or Pending
    width,           \* img.dimensions().0
    height,          \* img.dimensions().1
    base,            \* the pixels of the source image as loaded
    pixels,          \* write: the mutable pixel vector; read: the image read
    tokens,          \* write: the kinds of the token vector handed to it
    taken,           \* write: how many tokens tokens.next() has yielded
    i,               \* write: the pixel cursor
    amount,          \* write: iterations left of `for _ in 0..amount`
    starts,          \* history: the cursor value at which each token was taken
    wpc,             \* write: "entry", "loop", "filler", "done", "panic",
                     \* "error", or "idle"
    pos,             \* read: how many pixels pixels.next() has yielded
    line,            \* read: line
    column,          \* read: column
    stacking_token,  \* read: Option<TokenKind>
    out,             \* read: the token vector being built
    began,           \* history: the pixel index at which each token of out began
    opened,          \* history: the pixel index at which the open run began
    rpc,             \* read: "entry", "wait", "scan", "flush", "done",
                     \* "panic", "error"; "exit" once main has left on
                     \* an empty token vector
    input_path,      \* write: input_path
    output_path,     \* write: output_path
    path,            \* read: path
    io,              \* history: the file operations attempted, in order
    wret,            \* write: its return value, or Pending
    rret,            \* read: Err(..) once it has returned an error, else Pending
    fs,              \* the files at the paths that end in .png
    writable,        \* whether a file can be saved
    inner,           \* Lexer: the program text, a sequence of characters
    chars,           \* scan_tokens: the characters the iterator has left
    stacked,         \* scan_tokens: Option<(char, usize)>
    lex_tokens,      \* scan_tokens: tokens
    lex_errors,      \* scan_tokens: errors
    position,        \* scan_tokens: position
    lret,            \* scan_tokens: its return value, or Pending
    parser_tokens,   \* Parser: tokens
    current,         \* Parser: current
    errors,          \* Parser: errors
    frames,          \* Parser: the calls of program and iteration in progress
    pret,            \* Parser::parse: its return value, Pending, or Panic
    memory,          \* State: memory
    pointer,         \* State: pointer
    input,           \* State: input
    output,          \* State: output
    operator,        \* the Operator whose interpret is called
    ipc,             \* Operator::interpret: "call", "done", "panic", "idle";
                     \* Interpreter::interpret: "run", "done", "panic"
    exec,            \* the calls of Program::interpret in progress, innermost
                     \* last: the commands and the index of the next one; a
                     \* loop body at index 0 is at the test of its `while`
    loops,           \* history: for each loop in progress, the State at its
                     \* entry and the number of runs of its body
    finished         \* history: the same of the loop that finished last, with
                     \* the State at its end

pureVars == <<call, ret>>
imageVars == <<width, height, base>>
writeVars == <<tokens, taken, i, amount, starts, wpc>>
readVars == <<pos, line, column, stacking_token, out, began, opened, rpc>>
ioVars == <<input_path, output_path, path, io, wret, rret, fs, writable>>
lexVars == <<inner, chars, stacked, lex_tokens, lex_errors, position, lret>>
parseVars == <<parser_tokens, current, errors, frames, pret>>
execVars == <<exec, loops, finished>>
interpVars == <<memory, pointer, input, output, operator, ipc, execVars>>
\* the variables of the language front end and of the interpreter
hostVars == <<lexVars, parseVars, interpVars>>

vars == <<pureVars, imageVars, pixels, writeVars, readVars, ioVars, lexVars,
          parseVars, interpVars>>

(***************************************************************************)
(* Bounds of the model.                                                    *)
(***************************************************************************)
MaxPixels == 4      \* images hold at most this many pixels
MaxBody == 1        \* tokens before the closing EOF of a token stream
MaxCount == 2       \* largest repeat count of a token
MaxText == 4        \* characters of a program text
MaxParse == 4       \* tokens handed to the parser before the closing EOF

(***************************************************************************)
(* Values.                                                                 *)
(***************************************************************************)
U8_MAX == 255
MINIMUM_PIXEL_DISTANCE == 10
MAXIMUM_PIXEL_DISTANCE == 18
MEMORY_SIZE == 256

None == <<"None">>
Panic == <<"Panic">>
Pending == <<"Pending">>
Some(v) == <<"Some", v>>
IsSome(o) == o[1] = "Some"

CountKinds == {"Increment", "Decrement", "Right", "Left"}
PlainKinds == {"LoopStart", "LoopEnd", "PutChar", "ReadChar", "EOF"}
KindNames == CountKinds \cup PlainKinds

Tag(kind) == kind[1]
HasCount(kind) == Tag(kind) \in CountKinds
Plain(name) == <<name>>
Counted(name, n) == <<name, n>>
\* the TokenKind values with payloads up to n
TokenKinds(n) ==
    {Counted(k, c) : k \in CountKinds, c \in 0..n} \cup {Plain(k) : k \in PlainKinds}

Position(line_number, offset) == <<line_number, offset>>
Token(kind, where) == [kind |-> kind, position |-> where]

abs_diff(x, y) == IF x >= y THEN x - y ELSE y - x
saturating_add(x, y) == IF x + y > U8_MAX THEN U8_MAX ELSE x + y

\* u8 `x - y` and `x + y`: the outcomes of the two build profiles
Ok(v) == <<"Ok", v>>
IsOk(o) == o[1] = "Ok"
SubU8(x, y) == IF x >= y THEN {Ok(x - y)} ELSE {Panic, Ok(x - y + U8_MAX + 1)}
AddU8(x, y) == IF x + y <= U8_MAX THEN {Ok(x + y)} ELSE {Panic, Ok(x + y - U8_MAX - 1)}

(***************************************************************************)
(* The distance primitives.                                                *)
(***************************************************************************)
\* mutant: the alpha channel is not compared
pixel_distance_no_alpha(a, b) ==
    LET diff == abs_diff(a[1], b[1]) IN
    IF diff < MINIMUM_PIXEL_DISTANCE \/ diff > MAXIMUM_PIXEL_DISTANCE
    THEN None
    ELSE IF abs_diff(a[2], b[2]) # diff \/ abs_diff(a[3], b[3]) # diff
         THEN None
         ELSE Some(diff)

\* mutant: the band test joins its two comparisons with `&&`
pixel_distance_band_and(a, b) ==
    LET diff == abs_diff(a[1], b[1]) IN
    IF diff < MINIMUM_PIXEL_DISTANCE /\ diff > MAXIMUM_PIXEL_DISTANCE
    THEN None
    ELSE IF \/ abs_diff(a[2], b[2]) # diff
            \/ abs_diff(a[3], b[3]) # diff
            \/ abs_diff(a[4], b[4]) # diff
         THEN None
         ELSE Some(diff)

pixel_distance(a, b) ==
    LET diff == abs_diff(a[1], b[1]) IN
    IF diff < MINIMUM_PIXEL_DISTANCE \/ diff > MAXIMUM_PIXEL_DISTANCE
    THEN None
    ELSE IF \/ abs_diff(a[2], b[2]) # diff
            \/ abs_diff(a[3], b[3]) # diff
            \/ abs_diff(a[4], b[4]) # diff
         THEN None
         ELSE Some(diff)

\* the match arms of distance_to_kind on the value of distance - 10
distance_arm(n) ==
    CASE n = 0 -> Some(Counted("Increment", 0))
      [] n = 1 -> Some(Counted("Decrement", 0))
      [] n = 2 -> Some(Counted("Right", 0))
      [] n = 3 -> Some(Counted("Left", 0))
      [] n = 4 -> Some(Plain("LoopStart"))
      [] n = 5 -> Some(Plain("LoopEnd"))
      [] n = 6 -> Some(Plain("PutChar"))
      [] n = 7 -> Some(Plain("ReadChar"))
      [] n = 8 -> Some(Plain("EOF"))
      [] OTHER -> None

\* the set of outcomes of distance_to_kind(distance): one unless the
\* subtraction underflows
distance_to_kind(distance) ==
    {IF IsOk(n) THEN distance_arm(n[2]) ELSE Panic :
        n \in SubU8(distance, MINIMUM_PIXEL_DISTANCE)}

\* mutant: the arms follow the declaration order of enum TokenKind
kind_arm_enum_order(kind) ==
    CASE Tag(kind) = "Right" -> 0
      [] Tag(kind) = "Left" -> 1
      [] Tag(kind) = "Increment" -> 2
      [] Tag(kind) = "Decrement" -> 3
      [] Tag(kind) = "LoopStart" -> 4
      [] Tag(kind) = "LoopEnd" -> 5
      [] Tag(kind) = "PutChar" -> 6
      [] Tag(kind) = "ReadChar" -> 7
      [] Tag(kind) = "EOF" -> 8

kind_arm(kind) ==
    CASE Tag(kind) = "Increment" -> 0
      [] Tag(kind) = "Decrement" -> 1
      [] Tag(kind) = "Right" -> 2
      [] Tag(kind) = "Left" -> 3
      [] Tag(kind) = "LoopStart" -> 4
      [] Tag(kind) = "LoopEnd" -> 5
      [] Tag(kind) = "PutChar" -> 6
      [] Tag(kind) = "ReadChar" -> 7
      [] Tag(kind) = "EOF" -> 8

kind_to_distance(kind) == MINIMUM_PIXEL_DISTANCE + kind_arm(kind)

kind_count(kind) == IF HasCount(kind) THEN kind[2] ELSE 1

increase_kind(kind, count) ==
    IF HasCount(kind) THEN Counted(Tag(kind), kind[2] + count) ELSE kind

\* mutant: the distance is always added
encoded_channel_add(value, distance) == AddU8(value, distance)

\* one channel of encoded_pixel: the outcomes of the branch taken
encoded_channel(value, distance) ==
    IF saturating_add(value, distance) = U8_MAX
    THEN SubU8(value, distance)
    ELSE AddU8(value, distance)

\* the set of outcomes of encoded_pixel(distance, values): Panic if a channel
\* aborts, else Ok of the four channels
encoded_pixel(distance, values) ==
    LET r == encoded_channel(values[1], distance)
        g == encoded_channel(values[2], distance)
        b == encoded_channel(values[3], distance)
        a == encoded_channel(values[4], distance)
    IN  {IF IsOk(x1) /\ IsOk(x2) /\ IsOk(x3) /\ IsOk(x4)
         THEN Ok(<<x1[2], x2[2], x3[2], x4[2]>>)
         ELSE Panic :
            x1 \in r, x2 \in g, x3 \in b, x4 \in a}

(***************************************************************************)
(* Evaluation of one call of a distance primitive: SpecPure.               *)
(***************************************************************************)
\* channel differences that lie on and around the edges of the band
DeltaSamples == {-19, -18, -14, -10, -9, 0, 9, 10, 14, 18, 19}
AnchorSamples == {0, 100, 255}
\* consecutive channels of a sample pixel differ by one of these
ChannelOffsets == {0, 1, 85}
Channel == 0..U8_MAX

PixelPairs ==
    {<<a, b>> \in
        {<<<<x, x, x, x>>, <<x + d1, x + d2, x + d3, x + d4>>>> :
            x \in AnchorSamples, d1 \in DeltaSamples, d2 \in DeltaSamples,
            d3 \in DeltaSamples, d4 \in DeltaSamples} :
        \A c \in 1..4 : b[c] \in Channel}

SamplePixels ==
    {<<v, (v + o) % (U8_MAX + 1), (v + 2 * o) % (U8_MAX + 1),
       (v + 3 * o) % (U8_MAX + 1)>> : v \in Channel, o \in ChannelOffsets}

Calls ==
    {[fn |-> "pixel_distance", a |-> p[1], b |-> p[2]] : p \in PixelPairs}
    \cup {[fn |-> "distance_to_kind", distance |-> d] : d \in Channel}
    \cup {[fn |-> "kind_to_distance", kind |-> k] : k \in TokenKinds(MaxCount)}
    \cup {[fn |-> "encoded_pixel", distance |-> d, values |-> v] :
            d \in MINIMUM_PIXEL_DISTANCE..MAXIMUM_PIXEL_DISTANCE,
            v \in SamplePixels}

NoCall == [fn |-> "none"]

IdleImage ==
    /\ width = 0
    /\ height = 0
    /\ base = <<>>
    /\ pixels = <<>>

IdleWrite ==
    /\ tokens = <<>>
    /\ taken = 0
    /\ i = 0
    /\ amount = 0
    /\ starts = <<>>
    /\ wpc = "idle"

IdleRead ==
    /\ pos = 0
    /\ line = 0
    /\ column = 0
    /\ stacking_token = None
    /\ out = <<>>
    /\ began = <<>>
    /\ opened = 0

IdleIO ==
    /\ input_path = <<>>
    /\ output_path = <<>>
    /\ path = <<>>
    /\ io = <<>>
    /\ wret = Pending
    /\ rret = Pending
    /\ fs = <<>>
    /\ writable = TRUE

IdleLexer ==
    /\ inner = <<>>
    /\ chars = <<>>
    /\ stacked = None
    /\ lex_tokens = <<>>
    /\ lex_errors = <<>>
    /\ position = Position(0, 0)
    /\ lret = Pending

IdleParser ==
    /\ parser_tokens = <<>>
    /\ current = 0
    /\ errors = <<>>
    /\ frames = <<>>
    /\ pret = Pending

IdleInterpreter ==
    /\ memory = <<>>
    /\ pointer = 0
    /\ input = <<>>
    /\ output = <<>>
    /\ operator = None
    /\ ipc = "idle"
    /\ exec = <<>>
    /\ loops = <<>>
    /\ finished = None

IdleHost ==
    /\ IdleLexer
    /\ IdleParser
    /\ IdleInterpreter

InitPure ==
    /\ call \in Calls
    /\ ret = Pending
    /\ IdleImage
    /\ IdleWrite
    /\ IdleRead
    /\ rpc = "idle"
    /\ IdleIO
    /\ IdleHost

CallPixelDistance ==
    /\ call.fn = "pixel_distance"
    /\ ret = Pending
    /\ ret' = pixel_distance(call.a, call.b)
    /\ UNCHANGED <<hostVars, ioVars, call, imageVars, pixels, writeVars, readVars>>

CallDistanceToKind ==
    /\ call.fn = "distance_to_kind"
    /\ ret = Pending
    /\ ret' \in distance_to_kind(call.distance)
    /\ UNCHANGED <<hostVars, ioVars, call, imageVars, pixels, writeVars, readVars>>

CallKindToDistance ==
    /\ call.fn = "kind_to_distance"
    /\ ret = Pending
    /\ ret' = Ok(kind_to_distance(call.kind))
    /\ UNCHANGED <<hostVars, ioVars, call, imageVars, pixels, writeVars, readVars>>

CallEncodedPixel ==
    /\ call.fn = "encoded_pixel"
    /\ ret = Pending
    /\ ret' \in encoded_pixel(call.distance, call.values)
    /\ UNCHANGED <<hostVars, ioVars, call, imageVars, pixels, writeVars, readVars>>

NextPure ==
    \/ CallPixelDistance
    \/ CallDistanceToKind
    \/ CallKindToDistance
    \/ CallEncodedPixel

SpecPure == InitPure /\ [][NextPure]_vars

(***************************************************************************)
(* The images and token streams of the model.                              *)
(***************************************************************************)
\* base images of the encoder: two colours whose first channels lie on
\* either side of the midpoint of the channel range, and one at distance 10
\* from the first
BasePalette == {<<127, 127, 127, 255>>, <<128, 128, 128, 200>>,
                <<137, 137, 137, 245>>}

\* images handed to the decoder alone: greys whose pairwise distances are
\* 10, 11, 14, 18 or outside the band, and a pixel whose channel differences
\* disagree with every grey
ReadPalette == {<<0, 0, 0, 0>>, <<10, 10, 10, 10>>, <<20, 20, 20, 20>>,
                <<31, 31, 31, 31>>, <<38, 38, 38, 38>>, <<52, 52, 52, 52>>,
                <<10, 20, 10, 10>>}

Dims ==
    {d \in (0..MaxPixels) \X (0..MaxPixels) :
        /\ d[1] * d[2] <= MaxPixels
        /\ (d[1] = 0) <=> (d[2] = 0)}

Images(palette, n) == [1..n -> palette]

SeqsUpTo(S, n) == UNION {[1..m -> S] : m \in 0..n}

\* the kinds Lexer::scan_tokens pushes before the closing EOF: a stacked
\* character counts at least 1
BodyKinds ==
    {Counted(k, c) : k \in CountKinds, c \in 1..MaxCount}
    \cup {Plain(k) : k \in PlainKinds \ {"EOF"}}

\* the token vectors main hands to write: scan_tokens output, closed by EOF
TokenStreams == {body \o <<Plain("EOF")>> : body \in SeqsUpTo(BodyKinds, MaxBody)}

(***************************************************************************)
(* Paths and files.  A path is the sequence of its characters; a file is   *)
(* absent, holds bytes that do not decode, or holds an image.              *)
(***************************************************************************)
Err(e) == <<"Err", e>>
Unit == <<>>

\* str::ends_with
ends_with(str, suffix) ==
    /\ Len(str) >= Len(suffix)
    /\ SubSeq(str, Len(str) - Len(suffix) + 1, Len(str)) = suffix

PNG == <<".", "p", "n", "g">>
PathA == <<"a", ".", "p", "n", "g">>
PathB == <<"b", ".", "p", "n", "g">>
PathJpg == <<"a", ".", "j", "p", "g">>
PathBare == <<"p", "n", "g">>
Paths == {PathA, PathB, PathJpg, PathBare}
PngPaths == {p \in Paths : ends_with(p, PNG)}

Missing == <<"missing">>
Garbage == <<"garbage">>
ImageFile(w, h, px) == <<"image", w, h, px>>

\* one file operation of the history: who attempted what on which path
FileOp(who, what, where) == <<who, what, where>>
OpsOf(who) == SelectSeq(io, LAMBDA op : op[1] = who)

\* the image of write has been loaded from PathA, to be saved at PathB
LoadedForWrite ==
    /\ input_path = PathA
    /\ output_path = PathB
    /\ path = PathB
    /\ io = <<FileOp("write", "open", PathA), FileOp("write", "decode", PathA)>>
    /\ wret = Pending
    /\ rret = Pending
    /\ fs = [p \in PngPaths |->
                IF p = PathA THEN ImageFile(width, height, base) ELSE Missing]
    /\ writable = TRUE

\* the image of read has been loaded from PathA
LoadedForRead ==
    /\ input_path = <<>>
    /\ output_path = <<>>
    /\ path = PathA
    /\ io = <<FileOp("read", "open", PathA), FileOp("read", "decode", PathA)>>
    /\ wret = Pending
    /\ rret = Pending
    /\ fs = [p \in PngPaths |->
                IF p = PathA THEN ImageFile(width, height, base) ELSE Missing]
    /\ writable = TRUE

(***************************************************************************)
(* write: the encoder loop.                                                *)
(***************************************************************************)
\* write has loaded an image over the palette, read waits for it
InitOver(palette) ==
    /\ call = NoCall
    /\ ret = Pending
    /\ \E d \in Dims :
        /\ width = d[1]
        /\ height = d[2]
        /\ base \in Images(palette, d[1] * d[2])
    /\ pixels = base
    /\ tokens \in TokenStreams
    /\ taken = 0
    /\ i = 0
    /\ amount = 0
    /\ starts = <<>>
    /\ wpc = "loop"
    /\ IdleRead
    /\ rpc = "wait"
    /\ LoadedForWrite
    /\ IdleHost

Init == InitOver(BasePalette)

\* the head of write: the extension test, then the source image is opened,
\* decoded and copied into pixels
WriteEntry ==
    /\ wpc = "entry"
    /\ IF ~ends_with(input_path, PNG) \/ ~ends_with(output_path, PNG)
       THEN /\ wret' = Err("InvalidFileExtension")
            /\ wpc' = "error"
            /\ UNCHANGED <<io, imageVars, pixels>>
       ELSE LET file == fs[input_path]
                open == FileOp("write", "open", input_path)
                decode == FileOp("write", "decode", input_path)
            IN  IF file = Missing
                THEN /\ io' = Append(io, open)
                     /\ wret' = Err("FileNotFound")
                     /\ wpc' = "error"
                     /\ UNCHANGED <<imageVars, pixels>>
                ELSE IF file = Garbage
                THEN /\ io' = io \o <<open, decode>>
                     /\ wret' = Err("DecodeFailed")
                     /\ wpc' = "error"
                     /\ UNCHANGED <<imageVars, pixels>>
                ELSE /\ io' = io \o <<open, decode>>
                     /\ width' = file[2]
                     /\ height' = file[3]
                     /\ base' = file[4]
                     /\ pixels' = file[4]
                     /\ wpc' = "loop"
                     /\ wret' = wret
    /\ UNCHANGED <<hostVars, pureVars, tokens, taken, i, amount, starts,
                   readVars, input_path, output_path, path, rret, fs, writable>>

\* mutant: the signature is written into pixel i itself
WriteToken_in_place ==
    /\ wpc = "loop"
    /\ i < Len(pixels)
    /\ i + 1 < Len(pixels)
    /\ taken < Len(tokens)
    /\ LET pixel == pixels[i + 1]
           token == tokens[taken + 1]
           distance == kind_to_distance(token)
       IN  \E encoded \in encoded_pixel(distance, pixel) :
            IF IsOk(encoded)
            THEN /\ pixels' = [pixels EXCEPT ![i + 1] = encoded[2]]
                 /\ IF HasCount(token)
                    THEN /\ amount' = token[2]
                         /\ wpc' = "filler"
                         /\ i' = i
                    ELSE /\ amount' = 0
                         /\ wpc' = "loop"
                         /\ i' = i + 1
            ELSE /\ wpc' = "panic"
                 /\ UNCHANGED <<pixels, amount, i>>
    /\ taken' = taken + 1
    /\ starts' = Append(starts, i)
    /\ UNCHANGED <<hostVars, ioVars, pureVars, imageVars, tokens, readVars>>

\* `while i < pixels.len()` body up to the match on token.kind(): pixel i + 1
\* exists, a token is left; the signature is written into pixel i + 1
WriteToken ==
    /\ wpc = "loop"
    /\ i < Len(pixels)
    /\ i + 1 < Len(pixels)
    /\ taken < Len(tokens)
    /\ LET pixel == pixels[i + 1]
           token == tokens[taken + 1]
           distance == kind_to_distance(token)
       IN  \E encoded \in encoded_pixel(distance, pixel) :
            IF IsOk(encoded)
            THEN /\ pixels' = [pixels EXCEPT ![i + 2] = encoded[2]]
                 /\ IF HasCount(token)
                    THEN /\ amount' = token[2]
                         /\ wpc' = "filler"
                         /\ i' = i
                    ELSE /\ amount' = 0
                         /\ wpc' = "loop"
                         /\ i' = i + 1
            ELSE /\ wpc' = "panic"
                 /\ UNCHANGED <<pixels, amount, i>>
    /\ taken' = taken + 1
    /\ starts' = Append(starts, i)
    /\ UNCHANGED <<hostVars, ioVars, pureVars, imageVars, tokens, readVars>>

\* mutant: the change lands on a copy and the channel keeps its value
perturbed_copy(r) == r

\* mutant: the midpoint itself is decremented
perturbed_midpoint(r) == IF r >= U8_MAX \div 2 THEN r - 1 ELSE r + 1

\* the first channel of a filler pixel that presents a signature
perturbed(r) == IF r > U8_MAX \div 2 THEN r - 1 ELSE r + 1

\* mutant: the collision check reads the image as loaded, not the buffer
WriteFiller_stale ==
    /\ wpc = "filler"
    /\ amount > 0
    /\ i + 1 < Len(pixels)
    /\ i + 2 < Len(pixels)
    /\ LET pixel == base[i + 2]
           next_pixel == pixels[i + 3]
       IN  pixels' = IF IsSome(pixel_distance(pixel, next_pixel))
                     THEN [pixels EXCEPT ![i + 3][1] = perturbed(next_pixel[1])]
                     ELSE pixels
    /\ i' = i + 1
    /\ amount' = amount - 1
    /\ UNCHANGED <<hostVars, ioVars, pureVars, imageVars, tokens, taken, starts, wpc, readVars>>

\* one iteration of `for _ in 0..amount`
WriteFiller ==
    /\ wpc = "filler"
    /\ amount > 0
    /\ i + 1 < Len(pixels)
    /\ i + 2 < Len(pixels)
    /\ LET pixel == pixels[i + 2]
           next_pixel == pixels[i + 3]
       IN  pixels' = IF IsSome(pixel_distance(pixel, next_pixel))
                     THEN [pixels EXCEPT ![i + 3][1] = perturbed(next_pixel[1])]
                     ELSE pixels
    /\ i' = i + 1
    /\ amount' = amount - 1
    /\ UNCHANGED <<hostVars, ioVars, pureVars, imageVars, tokens, taken, starts, wpc, readVars>>

\* mutant: the cursor is not advanced past the last filler
WriteFillerEnd_no_advance ==
    /\ wpc = "filler"
    /\ (amount = 0 \/ i + 1 >= Len(pixels) \/ i + 2 >= Len(pixels))
    /\ i' = i
    /\ amount' = 0
    /\ wpc' = "loop"
    /\ UNCHANGED <<hostVars, ioVars, pureVars, imageVars, pixels, tokens, taken, starts, readVars>>

\* the for loop ends (its range is spent, or a break), then `i += 1`
WriteFillerEnd ==
    /\ wpc = "filler"
    /\ (amount = 0 \/ i + 1 >= Len(pixels) \/ i + 2 >= Len(pixels))
    /\ i' = i + 1
    /\ amount' = 0
    /\ wpc' = "loop"
    /\ UNCHANGED <<hostVars, ioVars, pureVars, imageVars, pixels, tokens, taken, starts, readVars>>

\* mutant: the buffer is saved as soon as a token has been written
WriteDone_early ==
    /\ wpc = "loop"
    /\ taken > 0
    /\ io' = Append(io, FileOp("write", "save", output_path))
    /\ IF writable
       THEN /\ fs' = [fs EXCEPT ![output_path] = ImageFile(width, height, pixels)]
            /\ wret' = Ok(Unit)
            /\ wpc' = "done"
       ELSE /\ fs' = fs
            /\ wret' = Err("SaveFailed")
            /\ wpc' = "error"
    /\ UNCHANGED <<hostVars, pureVars, imageVars, pixels, tokens, taken, i,
                   amount, starts, readVars, input_path, output_path, path,
                   rret, writable>>

\* mutant: tokens.next() is called before pixel i + 1 is looked up, so a
\* token is taken and lost when that pixel does not exist
WriteDone_after_take ==
    /\ wpc = "loop"
    /\ (i >= Len(pixels) \/ i + 1 >= Len(pixels) \/ taken >= Len(tokens))
    /\ taken' = IF i < Len(pixels) /\ taken < Len(tokens)
                THEN taken + 1
                ELSE taken
    /\ io' = Append(io, FileOp("write", "save", output_path))
    /\ IF writable
       THEN /\ fs' = [fs EXCEPT ![output_path] = ImageFile(width, height, pixels)]
            /\ wret' = Ok(Unit)
            /\ wpc' = "done"
       ELSE /\ fs' = fs
            /\ wret' = Err("SaveFailed")
            /\ wpc' = "error"
    /\ UNCHANGED <<hostVars, pureVars, imageVars, pixels, tokens, i, amount,
                   starts, readVars, input_path, output_path, path, rret,
                   writable>>

\* the while loop ends: no pixel i, no pixel i + 1, or no token; the buffer
\* is rebuilt from pixels with the same width and height and saved
WriteDone ==
    /\ wpc = "loop"
    /\ (i >= Len(pixels) \/ i + 1 >= Len(pixels) \/ taken >= Len(tokens))
    /\ io' = Append(io, FileOp("write", "save", output_path))
    /\ IF writable
       THEN /\ fs' = [fs EXCEPT ![output_path] = ImageFile(width, height, pixels)]
            /\ wret' = Ok(Unit)
            /\ wpc' = "done"
       ELSE /\ fs' = fs
            /\ wret' = Err("SaveFailed")
            /\ wpc' = "error"
    /\ UNCHANGED <<hostVars, pureVars, imageVars, pixels, tokens, taken, i,
                   amount, starts, readVars, input_path, output_path, path,
                   rret, writable>>

(***************************************************************************)
(* read: the decoder loop.                                                 *)
(***************************************************************************)
\* the outcomes of the u32 expression `column - count - 1`.  A negative
\* offset n stands for the wrapped value 2^32 + n of a build without
\* overflow checks (2^32 is beyond the integers of the model checker).
flush_offset(col, count) ==
    IF col - count - 1 >= 0
    THEN {Ok(col - count - 1)}
    ELSE {Panic, Ok(col - count - 1)}

\* `if let Some(last_kind) = stacking_token { tokens.push(..) }`: the
\* outcomes are Panic or Ok of the token vector after the push
flushed(toks, stacking, ln, col) ==
    IF IsSome(stacking)
    THEN {IF IsOk(off)
          THEN Ok(Append(toks, Token(stacking[2], Position(ln, off[2]))))
          ELSE Panic :
            off \in flush_offset(col, kind_count(stacking[2]))}
    ELSE {Ok(toks)}

\* `if column == width { column = 0; line += 1 }`
wrapped_column(col) == IF col = width THEN 0 ELSE col
wrapped_line(ln, col) == IF col = width THEN ln + 1 ELSE ln

\* the head of read: the extension test, then the image is opened and decoded
ReadEntry ==
    /\ rpc = "entry"
    /\ wpc \in {"done", "error"}
    /\ IF ~ends_with(path, PNG)
       THEN /\ rret' = Err("InvalidFileExtension")
            /\ rpc' = "error"
            /\ UNCHANGED <<io, width, height, pixels>>
       ELSE LET file == fs[path]
                open == FileOp("read", "open", path)
                decode == FileOp("read", "decode", path)
            IN  IF file = Missing
                THEN /\ io' = Append(io, open)
                     /\ rret' = Err("FileNotFound")
                     /\ rpc' = "error"
                     /\ UNCHANGED <<width, height, pixels>>
                ELSE IF file = Garbage
                THEN /\ io' = io \o <<open, decode>>
                     /\ rret' = Err("DecodeFailed")
                     /\ rpc' = "error"
                     /\ UNCHANGED <<width, height, pixels>>
                ELSE /\ io' = io \o <<open, decode>>
                     /\ width' = file[2]
                     /\ height' = file[3]
                     /\ pixels' = file[4]
                     /\ rpc' = "scan"
                     /\ rret' = rret
    /\ UNCHANGED <<hostVars, pureVars, base, writeVars, pos, line, column,
                   stacking_token, out, began, opened, input_path,
                   output_path, path, wret, fs, writable>>

\* read has opened the image: the one write saved, or the image given
ReadOpen ==
    /\ rpc = "wait"
    /\ wpc \in {"done", "idle"}
    /\ rpc' = "scan"
    /\ UNCHANGED <<hostVars, ioVars, pureVars, imageVars, pixels, writeVars, pos, line, column,
                   stacking_token, out, began, opened>>

\* `while let Some(pixel) = pixels.next()` yields None
ReadExhausted ==
    /\ rpc = "scan"
    /\ pos >= Len(pixels)
    /\ rpc' = "flush"
    /\ UNCHANGED <<hostVars, ioVars, pureVars, imageVars, pixels, writeVars, pos, line, column,
                   stacking_token, out, began, opened>>

\* the last pixel: column += 1, then pixels.peek() is None and the loop breaks
ReadLast ==
    /\ rpc = "scan"
    /\ pos < Len(pixels)
    /\ pos + 1 >= Len(pixels)
    /\ pos' = pos + 1
    /\ column' = column + 1
    /\ rpc' = "flush"
    /\ UNCHANGED <<hostVars, ioVars, pureVars, imageVars, pixels, writeVars, line,
                   stacking_token, out, began, opened>>

\* an iteration whose pixel pair carries a distance
ReadSignature ==
    /\ rpc = "scan"
    /\ pos + 1 < Len(pixels)
    /\ IsSome(pixel_distance(pixels[pos + 1], pixels[pos + 2]))
    /\ LET distance == pixel_distance(pixels[pos + 1], pixels[pos + 2])[2]
           col == column + 1
       IN  \E kind_opt \in distance_to_kind(distance) :
           \E pushed \in flushed(out, stacking_token, line, col) :
            IF IsSome(kind_opt) /\ IsOk(pushed)
            THEN LET kind == kind_opt[2]
                     began1 == IF IsSome(stacking_token)
                               THEN Append(began, opened)
                               ELSE began
                 IN  IF HasCount(kind)
                     THEN /\ stacking_token' = Some(kind)
                          /\ opened' = pos
                          /\ out' = pushed[2]
                          /\ began' = began1
                          /\ column' = wrapped_column(col)
                          /\ line' = wrapped_line(line, col)
                          /\ rpc' = "scan"
                     ELSE /\ stacking_token' = None
                          /\ opened' = opened
                          /\ out' = Append(pushed[2],
                                           Token(kind, Position(line, col)))
                          /\ began' = Append(began1, pos)
                          /\ IF Tag(kind) = "EOF"
                             THEN /\ column' = col
                                  /\ line' = line
                                  /\ rpc' = "flush"
                             ELSE /\ column' = wrapped_column(col)
                                  /\ line' = wrapped_line(line, col)
                                  /\ rpc' = "scan"
            ELSE /\ rpc' = "panic"
                 /\ UNCHANGED <<stacking_token, opened, out, began, column, line>>
    /\ pos' = pos + 1
    /\ UNCHANGED <<hostVars, ioVars, pureVars, imageVars, pixels, writeVars>>

\* mutant: the increased kind is dropped, the open run keeps its count
ReadContinuation_dropped ==
    /\ rpc = "scan"
    /\ pos + 1 < Len(pixels)
    /\ ~IsSome(pixel_distance(pixels[pos + 1], pixels[pos + 2]))
    /\ column' = wrapped_column(column + 1)
    /\ line' = wrapped_line(line, column + 1)
    /\ pos' = pos + 1
    /\ UNCHANGED <<hostVars, ioVars, pureVars, imageVars, pixels, writeVars, stacking_token, out,
                   began, opened, rpc>>

\* an iteration whose pixel pair carries no distance
ReadContinuation ==
    /\ rpc = "scan"
    /\ pos + 1 < Len(pixels)
    /\ ~IsSome(pixel_distance(pixels[pos + 1], pixels[pos + 2]))
    /\ stacking_token' = IF IsSome(stacking_token)
                         THEN Some(increase_kind(stacking_token[2], 1))
                         ELSE None
    /\ column' = wrapped_column(column + 1)
    /\ line' = wrapped_line(line, column + 1)
    /\ pos' = pos + 1
    /\ UNCHANGED <<hostVars, ioVars, pureVars, imageVars, pixels, writeVars, out, began, opened,
                   rpc>>

\* after the loop: the open run, if any, is pushed and Ok(tokens) returned
ReadFinish ==
    /\ rpc = "flush"
    /\ \E pushed \in flushed(out, stacking_token, line, column) :
        IF IsOk(pushed)
        THEN /\ out' = pushed[2]
             /\ began' = IF IsSome(stacking_token)
                         THEN Append(began, opened)
                         ELSE began
             /\ rpc' = "done"
        ELSE /\ rpc' = "panic"
             /\ UNCHANGED <<out, began>>
    /\ UNCHANGED <<hostVars, ioVars, pureVars, imageVars, pixels, writeVars, pos, line, column,
                   stacking_token, opened>>

Next ==
    \/ WriteToken
    \/ WriteFiller
    \/ WriteFillerEnd
    \/ WriteDone
    \/ ReadOpen
    \/ ReadExhausted
    \/ ReadLast
    \/ ReadSignature
    \/ ReadContinuation
    \/ ReadFinish

Spec == Init /\ [][Next]_vars

\* write alone, run to its end: a step of the loop that can be taken is
\* taken.  The image is drawn from two colours, one at distance 10 from the
\* other.
EncodePalette == {<<127, 127, 127, 255>>, <<137, 137, 137, 245>>}

InitEncode == InitOver(EncodePalette)

NextEncode ==
    \/ WriteToken
    \/ WriteFiller
    \/ WriteFillerEnd
    \/ WriteDone

SpecEncode == InitEncode /\ [][NextEncode]_vars /\ WF_vars(NextEncode)

\* read on an image of any content over the palette
InitReadOver(palette) ==
    /\ call = NoCall
    /\ ret = Pending
    /\ \E d \in Dims :
        /\ width = d[1]
        /\ height = d[2]
        /\ base \in Images(palette, d[1] * d[2])
    /\ pixels = base
    /\ IdleWrite
    /\ IdleRead
    /\ rpc = "wait"
    /\ LoadedForRead
    /\ IdleHost

InitRead == InitReadOver(ReadPalette)

NextRead ==
    \/ ReadOpen
    \/ ReadExhausted
    \/ ReadLast
    \/ ReadSignature
    \/ ReadContinuation
    \/ ReadFinish

SpecRead == InitRead /\ [][NextRead]_vars

(***************************************************************************)
(* write, then read, with their files: SpecIO.                             *)
(***************************************************************************)
Grey(v) == <<v, v, v, v>>

\* what a path that ends in .png may hold
IOFiles ==
    {Missing, Garbage,
     ImageFile(2, 2, [k \in 1..4 |-> <<100, 100, 100, 255>>]),
     ImageFile(3, 1, <<Grey(0), Grey(14), Grey(32)>>)}

IOTokenStreams ==
    {<<Plain("EOF")>>,
     <<Counted("Increment", 1), Plain("EOF")>>,
     <<Counted("Right", 2), Plain("PutChar"), Plain("EOF")>>}

InitIO ==
    /\ call = NoCall
    /\ ret = Pending
    /\ IdleImage
    /\ tokens \in IOTokenStreams
    /\ taken = 0
    /\ i = 0
    /\ amount = 0
    /\ starts = <<>>
    /\ wpc = "entry"
    /\ IdleRead
    /\ rpc = "entry"
    /\ input_path \in Paths
    /\ output_path \in Paths
    /\ path \in Paths
    /\ io = <<>>
    /\ wret = Pending
    /\ rret = Pending
    /\ fs \in [PngPaths -> IOFiles]
    /\ writable \in BOOLEAN
    /\ IdleHost

\* a file that decodes as a PNG holds at least one pixel, so the scan of read
\* always finds a first pixel and ends at the last one
NextIO ==
    \/ WriteEntry
    \/ WriteToken
    \/ WriteFiller
    \/ WriteFillerEnd
    \/ WriteDone
    \/ ReadEntry
    \/ ReadLast
    \/ ReadSignature
    \/ ReadContinuation
    \/ ReadFinish

SpecIO == InitIO /\ [][NextIO]_vars

(***************************************************************************)
(* Lexer::scan_tokens: SpecLexer.  A character is a string of length one.  *)
(***************************************************************************)
StackChars == {"+", "-", ">", "<"}
StructuralChars == {".", ",", "[", "]"}
BlankChars == {"\n", " ", "\t"}
\* characters scan_tokens has no arm for
OtherChars == {"x"}
\* the characters the arms of `match char` name
RecognizedChars == StackChars \cup StructuralChars \cup BlankChars
Alphabet == RecognizedChars \cup OtherChars

Texts == SeqsUpTo(Alphabet, MaxText)

increment_offset(p) == Position(p[1], p[2] + 1)
increment_line_number(p) == Position(p[1] + 1, 0)

\* the arms `'+' => Increment(stack_count)`, ...
stack_kind(stack_char, stack_count) ==
    CASE stack_char = "+" -> Counted("Increment", stack_count)
      [] stack_char = "-" -> Counted("Decrement", stack_count)
      [] stack_char = ">" -> Counted("Right", stack_count)
      [] stack_char = "<" -> Counted("Left", stack_count)

\* the arms `'.' => PutChar`, ...
structural_kind(char) ==
    CASE char = "." -> Plain("PutChar")
      [] char = "," -> Plain("ReadChar")
      [] char = "[" -> Plain("LoopStart")
      [] char = "]" -> Plain("LoopEnd")

\* `match stack_char { .. }` on Some((stack_char, stack_count)): the token
\* vector after the push
push_stacked(toks, stack, p) ==
    IF IsSome(stack)
    THEN Append(toks, Token(stack_kind(stack[2][1], stack[2][2]), p))
    ELSE toks

\* mutant: a character equal to the stacked one starts the count again
restack_reset(stack, char) == Some(<<char, 1>>)

\* `stacked.map_or(default, |(ch, cnt)| Some((ch, cnt + 1)))`
restack(stack, char) ==
    IF IsSome(stack)
    THEN Some(<<stack[2][1], stack[2][2] + 1>>)
    ELSE Some(<<char, 1>>)

\* mutant: only the first diagnostic is kept
push_unrecognized_first(errs, p, char) ==
    IF errs = <<>> THEN <<<<p, "Unrecognized character: ", char>>>> ELSE errs

\* `errors.push((position, format!("Unrecognized character: {}", char)))`
push_unrecognized(errs, p, char) ==
    Append(errs, <<p, "Unrecognized character: ", char>>)

InitLexer ==
    /\ call = NoCall
    /\ ret = Pending
    /\ IdleImage
    /\ IdleWrite
    /\ IdleRead
    /\ rpc = "idle"
    /\ IdleIO
    /\ inner \in Texts
    /\ chars = inner
    /\ stacked = None
    /\ lex_tokens = <<>>
    /\ lex_errors = <<>>
    /\ position = Position(0, 0)
    /\ lret = Pending
    /\ IdleParser
    /\ IdleInterpreter

\* one iteration of `for char in chars`
LexChar ==
    /\ lret = Pending
    /\ chars # <<>>
    /\ LET char == Head(chars)
           p == increment_offset(position)
           differs == IsSome(stacked) /\ char # stacked[2][1]
           flushed_tokens == IF differs
                             THEN push_stacked(lex_tokens, stacked, p)
                             ELSE lex_tokens
           stack == IF differs THEN None ELSE stacked
       IN  /\ stacked' = IF char \in StackChars
                         THEN restack(stack, char)
                         ELSE stack
           /\ lex_tokens' = IF char \in StructuralChars
                            THEN Append(flushed_tokens,
                                        Token(structural_kind(char), p))
                            ELSE flushed_tokens
           /\ position' = IF char = "\n" THEN increment_line_number(p) ELSE p
           /\ lex_errors' = IF char \in RecognizedChars
                            THEN lex_errors
                            ELSE push_unrecognized(lex_errors, p, char)
    /\ chars' = Tail(chars)
    /\ UNCHANGED <<pureVars, imageVars, pixels, writeVars, readVars, ioVars,
                   inner, lret, parseVars, interpVars>>

\* mutant: the closing EOF is not pushed
LexFinish_no_eof ==
    /\ lret = Pending
    /\ chars = <<>>
    /\ lex_tokens' = push_stacked(lex_tokens, stacked, position)
    /\ lret' = IF Len(lex_errors) = 0 THEN Ok(lex_tokens') ELSE Err(lex_errors)
    /\ UNCHANGED <<pureVars, imageVars, pixels, writeVars, readVars, ioVars,
                   inner, chars, stacked, lex_errors, position, parseVars,
                   interpVars>>

\* after the loop: the stacked token and EOF are pushed, then Ok(tokens) or
\* Err(errors) is returned
LexFinish ==
    /\ lret = Pending
    /\ chars = <<>>
    /\ lex_tokens' = Append(push_stacked(lex_tokens, stacked, position),
                            Token(Plain("EOF"), position))
    /\ lret' = IF Len(lex_errors) = 0 THEN Ok(lex_tokens') ELSE Err(lex_errors)
    /\ UNCHANGED <<pureVars, imageVars, pixels, writeVars, readVars, ioVars,
                   inner, chars, stacked, lex_errors, position, parseVars,
                   interpVars>>

NextLexer ==
    \/ LexChar
    \/ LexFinish

SpecLexer == InitLexer /\ [][NextLexer]_vars

(***************************************************************************)
(* Parser::parse: SpecParser.  The calls of program and iteration that are *)
(* in progress are the frames, innermost last; a call of program that has  *)
(* returned leaves its Program in a frame until the caller takes it.       *)
(***************************************************************************)
\* impl Display for TokenKind
display(kind) ==
    CASE Tag(kind) = "Right" -> ">"
      [] Tag(kind) = "Left" -> "<"
      [] Tag(kind) = "Increment" -> "+"
      [] Tag(kind) = "Decrement" -> "-"
      [] Tag(kind) = "LoopStart" -> "["
      [] Tag(kind) = "LoopEnd" -> "]"
      [] Tag(kind) = "PutChar" -> "."
      [] Tag(kind) = "ReadChar" -> ","
      [] Tag(kind) = "EOF" -> "EOF"

Operator(kind) == <<"Operator", kind>>
Iteration(program) == <<"Iteration", program>>

ProgramFrame(commands) == [fn |-> "program", commands |-> commands]
IterationFrame == [fn |-> "iteration", commands |-> <<>>]
Returned(commands) == [fn |-> "returned", commands |-> commands]

\* the kinds for which Parser::operator returns Some
OperatorKinds ==
    {"Increment", "Decrement", "Right", "Left", "PutChar", "ReadChar"}

\* Parser::peek, where current indexes a token
peek == parser_tokens[current + 1]
\* Parser::at_end
at_end == Tag(peek.kind) = "EOF"
\* Parser::advance: the value of current after the call
advance == IF ~at_end THEN current + 1 ELSE current

\* mutant: the diagnostic is not recorded
push_error_dropped(errs, token, message) == errs

\* Parser::push_error
push_error(errs, token, message) == Append(errs, <<token.position, message>>)

\* the kinds of the tokens handed to the parser, before a closing EOF
ParserKinds ==
    {Counted("Increment", 1), Counted("Right", 2), Plain("PutChar"),
     Plain("LoopStart"), Plain("LoopEnd")}

\* token j stands at offset j of line 0
Located(kinds) == [j \in 1..Len(kinds) |-> Token(kinds[j], Position(0, j))]

\* the token vectors Parser::new is given: those of scan_tokens, closed by
\* EOF, and those of read, which are not empty and may lack the EOF
ParserInputs ==
    {Located(body \o <<Plain("EOF")>>) : body \in SeqsUpTo(ParserKinds, MaxParse)}
    \cup {Located(body) : body \in SeqsUpTo(ParserKinds, MaxParse) \ {<<>>}}

InitParser ==
    /\ call = NoCall
    /\ ret = Pending
    /\ IdleImage
    /\ IdleWrite
    /\ IdleRead
    /\ rpc = "idle"
    /\ IdleIO
    /\ IdleLexer
    /\ parser_tokens \in ParserInputs
    /\ current = 0
    /\ errors = <<>>
    /\ frames = <<ProgramFrame(<<>>)>>
    /\ pret = Pending
    /\ IdleInterpreter

\* the innermost frame
Top == frames[Len(frames)]
Pop(n) == SubSeq(frames, 1, Len(frames) - n)
Parsing(fn) ==
    /\ pret = Pending
    /\ current < Len(parser_tokens)
    /\ Top.fn = fn

\* peek indexes the token vector past its end
ParserOutOfBounds ==
    /\ pret = Pending
    /\ frames # <<>>
    /\ current >= Len(parser_tokens)
    /\ pret' = Panic
    /\ UNCHANGED <<pureVars, imageVars, pixels, writeVars, readVars, ioVars,
                   lexVars, parser_tokens, current, errors, frames,
                   interpVars>>

\* program: operator() returns Some, the command is pushed
ParserOperator ==
    /\ Parsing("program")
    /\ Tag(peek.kind) \in OperatorKinds
    /\ current' = advance
    /\ frames' = Pop(1) \o <<ProgramFrame(Append(Top.commands,
                                                 Operator(peek.kind)))>>
    /\ UNCHANGED <<pureVars, imageVars, pixels, writeVars, readVars, ioVars,
                   lexVars, parser_tokens, errors, pret, interpVars>>

\* program: operator() returns None, iteration() finds LoopStart, advances
\* and calls program
ParserLoopStart ==
    /\ Parsing("program")
    /\ Tag(peek.kind) = "LoopStart"
    /\ current' = advance
    /\ frames' = frames \o <<IterationFrame, ProgramFrame(<<>>)>>
    /\ UNCHANGED <<pureVars, imageVars, pixels, writeVars, readVars, ioVars,
                   lexVars, parser_tokens, errors, pret, interpVars>>

\* program: operator() and iteration() return None at once, the loop breaks
\* and Program { commands } is returned
ParserProgramEnd ==
    /\ Parsing("program")
    /\ Tag(peek.kind) \notin OperatorKinds \cup {"LoopStart"}
    /\ frames' = Pop(1) \o <<Returned(Top.commands)>>
    /\ UNCHANGED <<pureVars, imageVars, pixels, writeVars, readVars, ioVars,
                   lexVars, parser_tokens, current, errors, pret, interpVars>>

\* iteration after its call of program: at LoopEnd it advances and returns
\* the Iteration, which the calling program pushes; otherwise it records
\* "Expected ']'" and returns None, on which the calling program breaks and
\* returns
ParserIterationEnd ==
    /\ Parsing("returned")
    /\ Len(frames) > 1
    /\ IF Tag(peek.kind) = "LoopEnd"
       THEN /\ current' = advance
            /\ errors' = errors
            /\ frames' = Pop(3) \o
                <<ProgramFrame(Append(frames[Len(frames) - 2].commands,
                                      Iteration(Top.commands)))>>
       ELSE /\ current' = current
            /\ errors' = push_error(errors, peek, <<"Expected ']'">>)
            /\ frames' = Pop(3) \o
                <<Returned(frames[Len(frames) - 2].commands)>>
    /\ UNCHANGED <<pureVars, imageVars, pixels, writeVars, readVars, ioVars,
                   lexVars, parser_tokens, pret, interpVars>>

\* parse: one iteration of `while !self.at_end()`
ParserUnexpected ==
    /\ Parsing("returned")
    /\ Len(frames) = 1
    /\ ~at_end
    /\ errors' = push_error(errors, peek,
                            <<"Unexpected token", display(peek.kind)>>)
    /\ current' = advance
    /\ UNCHANGED <<pureVars, imageVars, pixels, writeVars, readVars, ioVars,
                   lexVars, parser_tokens, frames, pret, interpVars>>

\* parse: the while loop has ended, Ok(program) or Err(errors) is returned
ParserFinish ==
    /\ Parsing("returned")
    /\ Len(frames) = 1
    /\ at_end
    /\ pret' = IF Len(errors) = 0 THEN Ok(Top.commands) ELSE Err(errors)
    /\ UNCHANGED <<pureVars, imageVars, pixels, writeVars, readVars, ioVars,
                   lexVars, parser_tokens, current, errors, frames,
                   interpVars>>

NextParser ==
    \/ ParserOutOfBounds
    \/ ParserOperator
    \/ ParserLoopStart
    \/ ParserProgramEnd
    \/ ParserIterationEnd
    \/ ParserUnexpected
    \/ ParserFinish

SpecParser == InitParser /\ [][NextParser]_vars

(***************************************************************************)
(* Commands::Execute: read, then Parser::parse on what read returned:      *)
(* SpecExecute.                                                            *)
(***************************************************************************)
\* greys whose neighbours in this order are 10, 14, 15 and 18 apart: the
\* pairs of an image over them carry Increment, LoopStart, LoopEnd, EOF or
\* nothing
ExecutePalette == {Grey(0), Grey(10), Grey(24), Grey(39), Grey(57)}

InitExecute == InitReadOver(ExecutePalette)

\* `if tokens.len() == 0 { println!("No program found"); exit(1) }`
ExecuteNoProgram ==
    /\ rpc = "done"
    /\ Len(out) = 0
    /\ rpc' = "exit"
    /\ UNCHANGED <<hostVars, ioVars, pureVars, imageVars, pixels, writeVars,
                   pos, line, column, stacking_token, out, began, opened>>

\* `Parser::new(tokens)` on a token vector that is not empty, and the call
\* of parse up to its call of program
ExecuteParse ==
    /\ rpc = "done"
    /\ Len(out) # 0
    /\ frames = <<>>
    /\ parser_tokens' = out
    /\ current' = 0
    /\ errors' = <<>>
    /\ frames' = <<ProgramFrame(<<>>)>>
    /\ pret' = Pending
    /\ UNCHANGED <<pureVars, imageVars, pixels, writeVars, readVars, ioVars,
                   lexVars, interpVars>>

NextExecute ==
    \/ ReadOpen
    \/ ReadExhausted
    \/ ReadLast
    \/ ReadSignature
    \/ ReadContinuation
    \/ ReadFinish
    \/ ExecuteNoProgram
    \/ ExecuteParse
    \/ ParserOutOfBounds
    \/ ParserOperator
    \/ ParserLoopStart
    \/ ParserProgramEnd
    \/ ParserIterationEnd
    \/ ParserUnexpected
    \/ ParserFinish

SpecExecute == InitExecute /\ [][NextExecute]_vars

(***************************************************************************)
(* run_repl on one line: scan_tokens, then Parser::parse on the tokens it  *)
(* returned: SpecRepl.                                                     *)
(***************************************************************************)
\* `Parser::new(tokens)` on the Ok of scan_tokens, and the call of parse up
\* to its call of program
ReplParse ==
    /\ IsOk(lret)
    /\ frames = <<>>
    /\ parser_tokens' = lret[2]
    /\ current' = 0
    /\ errors' = <<>>
    /\ frames' = <<ProgramFrame(<<>>)>>
    /\ pret' = Pending
    /\ UNCHANGED <<pureVars, imageVars, pixels, writeVars, readVars, ioVars,
                   lexVars, interpVars>>

\* the steps of the parser are those that index a token
NextRepl ==
    \/ LexChar
    \/ LexFinish
    \/ ReplParse
    \/ ParserOperator
    \/ ParserLoopStart
    \/ ParserProgramEnd
    \/ ParserIterationEnd
    \/ ParserUnexpected
    \/ ParserFinish

SpecRepl == InitLexer /\ [][NextRepl]_vars

(***************************************************************************)
(* Operator::interpret on a State: SpecInterpret.  A pointer below 0       *)
(* stands for the wrapped value of a usize subtraction in a build without  *)
(* overflow checks.                                                        *)
(***************************************************************************)
\* `*v as u8`
as_u8(v) == v % (U8_MAX + 1)

\* repeat counts on and around the multiples of 256
CountSamples == {0, 1, 2, 255, 256, 257}
MoveSamples == {1, 256}

Operators ==
    {Operator(Counted(k, v)) : k \in {"Increment", "Decrement"}, v \in CountSamples}
    \cup {Operator(Counted(k, v)) : k \in {"Right", "Left"}, v \in MoveSamples}
    \cup {Operator(Plain("PutChar")), Operator(Plain("ReadChar"))}

\* the contents of the cells other than the one under the pointer
FillSamples == {0, 200}
\* pointers: the first cell, the last one, and one past the memory
PointerSamples == {0, MEMORY_SIZE - 1, MEMORY_SIZE}

InitInterpret ==
    /\ call = NoCall
    /\ ret = Pending
    /\ IdleImage
    /\ IdleWrite
    /\ IdleRead
    /\ rpc = "idle"
    /\ IdleIO
    /\ IdleLexer
    /\ IdleParser
    /\ pointer \in PointerSamples
    /\ \E c \in Channel, fill \in FillSamples :
        memory = [k \in 0..(MEMORY_SIZE - 1) |-> IF k = pointer THEN c ELSE fill]
    /\ input \in {<<>>, <<65, 66>>}
    /\ output = <<>>
    /\ operator = None
    /\ ipc = "call"
    /\ exec = <<>>
    /\ loops = <<>>
    /\ finished = None

\* `state.memory[state.pointer]` is in bounds
InBounds == pointer \in DOMAIN memory

\* Operator::Increment(v) => state.memory[state.pointer] += *v as u8
InterpretIncrement ==
    /\ ipc = "call"
    /\ \E op \in Operators :
        /\ Tag(op[2]) = "Increment"
        /\ operator' = op
        /\ IF InBounds
           THEN \E cell \in AddU8(memory[pointer], as_u8(op[2][2])) :
                    IF IsOk(cell)
                    THEN /\ memory' = [memory EXCEPT ![pointer] = cell[2]]
                         /\ ipc' = "done"
                    ELSE /\ memory' = memory
                         /\ ipc' = "panic"
           ELSE /\ memory' = memory
                /\ ipc' = "panic"
    /\ UNCHANGED <<pureVars, imageVars, pixels, writeVars, readVars, ioVars,
                   lexVars, parseVars, execVars, pointer, input, output>>

\* Operator::Decrement(v) => state.memory[state.pointer] -= *v as u8
InterpretDecrement ==
    /\ ipc = "call"
    /\ \E op \in Operators :
        /\ Tag(op[2]) = "Decrement"
        /\ operator' = op
        /\ IF InBounds
           THEN \E cell \in SubU8(memory[pointer], as_u8(op[2][2])) :
                    IF IsOk(cell)
                    THEN /\ memory' = [memory EXCEPT ![pointer] = cell[2]]
                         /\ ipc' = "done"
                    ELSE /\ memory' = memory
                         /\ ipc' = "panic"
           ELSE /\ memory' = memory
                /\ ipc' = "panic"
    /\ UNCHANGED <<pureVars, imageVars, pixels, writeVars, readVars, ioVars,
                   lexVars, parseVars, execVars, pointer, input, output>>

\* Operator::Right(v) => state.pointer += *v
InterpretRight ==
    /\ ipc = "call"
    /\ \E op \in Operators :
        /\ Tag(op[2]) = "Right"
        /\ operator' = op
        /\ pointer' = pointer + op[2][2]
    /\ ipc' = "done"
    /\ UNCHANGED <<pureVars, imageVars, pixels, writeVars, readVars, ioVars,
                   lexVars, parseVars, execVars, memory, input, output>>

\* Operator::Left(v) => state.pointer -= *v
InterpretLeft ==
    /\ ipc = "call"
    /\ \E op \in Operators :
        /\ Tag(op[2]) = "Left"
        /\ operator' = op
        /\ \E checked \in BOOLEAN :
            IF pointer - op[2][2] < 0 /\ checked
            THEN /\ pointer' = pointer
                 /\ ipc' = "panic"
            ELSE /\ pointer' = pointer - op[2][2]
                 /\ ipc' = "done"
    /\ UNCHANGED <<pureVars, imageVars, pixels, writeVars, readVars, ioVars,
                   lexVars, parseVars, execVars, memory, input, output>>

\* Operator::PutChar
InterpretPutChar ==
    /\ ipc = "call"
    /\ operator' = Operator(Plain("PutChar"))
    /\ IF InBounds
       THEN /\ output' = Append(output, memory[pointer])
            /\ ipc' = "done"
       ELSE /\ output' = output
            /\ ipc' = "panic"
    /\ UNCHANGED <<pureVars, imageVars, pixels, writeVars, readVars, ioVars,
                   lexVars, parseVars, execVars, memory, pointer, input>>

\* Operator::ReadChar: input.pop() takes the last byte, or 0
InterpretReadChar ==
    /\ ipc = "call"
    /\ operator' = Operator(Plain("ReadChar"))
    /\ LET c == IF Len(input) > 0 THEN input[Len(input)] ELSE 0
       IN  /\ input' = IF Len(input) > 0
                       THEN SubSeq(input, 1, Len(input) - 1)
                       ELSE input
           /\ IF InBounds
              THEN /\ memory' = [memory EXCEPT ![pointer] = c]
                   /\ ipc' = "done"
              ELSE /\ memory' = memory
                   /\ ipc' = "panic"
    /\ UNCHANGED <<pureVars, imageVars, pixels, writeVars, readVars, ioVars,
                   lexVars, parseVars, execVars, pointer, output>>

NextInterpret ==
    \/ InterpretIncrement
    \/ InterpretDecrement
    \/ InterpretRight
    \/ InterpretLeft
    \/ InterpretPutChar
    \/ InterpretReadChar

SpecInterpret == InitInterpret /\ [][NextInterpret]_vars

(***************************************************************************)
(* Interpreter::interpret on a Program: SpecRun.  Program::interpret runs  *)
(* its commands in order; Iteration::interpret is the `while` around the   *)
(* Program::interpret of its body.                                         *)
(***************************************************************************)
MaxLoopBody == 2    \* commands in the body of the loop that is run
MaxOutput == 2      \* bytes PutChar may push before the run is cut

\* the State the commands are interpreted on
StateOf ==
    [memory |-> memory, pointer |-> pointer, input |-> input,
     output |-> output]

\* Operator::interpret on a State: Panic where it aborts, else Ok of the
\* State it leaves
operator_interpret(op, st) ==
    LET kind == op[2]
        inside == st.pointer \in DOMAIN st.memory
    IN  CASE Tag(kind) = "Increment" ->
                IF inside
                THEN {IF IsOk(cell)
                      THEN Ok([st EXCEPT !.memory[st.pointer] = cell[2]])
                      ELSE Panic :
                        cell \in AddU8(st.memory[st.pointer], as_u8(kind[2]))}
                ELSE {Panic}
          [] Tag(kind) = "Decrement" ->
                IF inside
                THEN {IF IsOk(cell)
                      THEN Ok([st EXCEPT !.memory[st.pointer] = cell[2]])
                      ELSE Panic :
                        cell \in SubU8(st.memory[st.pointer], as_u8(kind[2]))}
                ELSE {Panic}
          [] Tag(kind) = "Right" ->
                {Ok([st EXCEPT !.pointer = st.pointer + kind[2]])}
          [] Tag(kind) = "Left" ->
                IF st.pointer - kind[2] < 0
                THEN {Panic, Ok([st EXCEPT !.pointer = st.pointer - kind[2]])}
                ELSE {Ok([st EXCEPT !.pointer = st.pointer - kind[2]])}
          [] Tag(kind) = "PutChar" ->
                IF inside
                THEN {Ok([st EXCEPT
                            !.output = Append(st.output, st.memory[st.pointer])])}
                ELSE {Panic}
          [] Tag(kind) = "ReadChar" ->
                LET n == Len(st.input)
                    c == IF n > 0 THEN st.input[n] ELSE 0
                    rest == IF n > 0 THEN SubSeq(st.input, 1, n - 1)
                            ELSE st.input
                IN  IF inside
                    THEN {Ok([st EXCEPT !.input = rest,
                                        !.memory[st.pointer] = c])}
                    ELSE {Panic}

\* a call of Program::interpret: its commands and the index of the next one
Frame(commands, next) == [commands |-> commands, next |-> next]

\* the operators of the programs that are run: counts that leave a byte in
\* few steps, a move to the next cell, and the two that use input and output
RunOperators ==
    {Operator(Counted("Increment", 100)), Operator(Counted("Decrement", 1)),
     Operator(Counted("Right", 1)), Operator(Plain("PutChar")),
     Operator(Plain("ReadChar"))}

\* loops inside the loop: empty, or around one operator
InnerLoops == {Iteration(program) : program \in SeqsUpTo(RunOperators, 1)}

LoopBodies == SeqsUpTo(RunOperators \cup InnerLoops, MaxLoopBody)

\* the program has come to a loop, on the State the commands before it have
\* left: the pointer near the end of the memory, small values in the cells
InitRun ==
    /\ call = NoCall
    /\ ret = Pending
    /\ IdleImage
    /\ IdleWrite
    /\ IdleRead
    /\ rpc = "idle"
    /\ IdleIO
    /\ IdleLexer
    /\ IdleParser
    /\ pointer \in {MEMORY_SIZE - 3, MEMORY_SIZE - 1}
    /\ \E c \in {0, 1, 2}, fill \in {0, 1} :
        memory = [k \in 0..(MEMORY_SIZE - 1) |-> IF k = pointer THEN c ELSE fill]
    /\ input \in {<<>>, <<65>>}
    /\ output = <<>>
    /\ operator = None
    /\ ipc = "run"
    /\ \E body \in LoopBodies : exec = <<Frame(<<Iteration(body)>>, 1)>>
    /\ loops = <<>>
    /\ finished = None

ExecTop == exec[Len(exec)]
\* Program::interpret is at a command
AtCommand ==
    /\ ipc = "run"
    /\ exec # <<>>
    /\ ExecTop.next \in 1..Len(ExecTop.commands)
\* Iteration::interpret is at the test of its `while`: it has been called,
\* or the Program::interpret of its body has returned
AtWhile ==
    /\ ipc = "run"
    /\ Len(exec) > 1
    /\ ExecTop.next \notin 1..Len(ExecTop.commands)
Command == ExecTop.commands[ExecTop.next]
Advanced(stack) == [stack EXCEPT ![Len(stack)].next = @ + 1]

\* `command.interpret(state)` on an Operator
RunOperator ==
    /\ AtCommand
    /\ Command[1] = "Operator"
    /\ Tag(Command[2]) = "PutChar" => Len(output) < MaxOutput
    /\ operator' = Command
    /\ \E outcome \in operator_interpret(Command, StateOf) :
        IF IsOk(outcome)
        THEN /\ memory' = outcome[2].memory
             /\ pointer' = outcome[2].pointer
             /\ input' = outcome[2].input
             /\ output' = outcome[2].output
             /\ exec' = Advanced(exec)
             /\ ipc' = "run"
        ELSE /\ ipc' = "panic"
             /\ UNCHANGED <<memory, pointer, input, output, exec>>
    /\ UNCHANGED <<pureVars, imageVars, pixels, writeVars, readVars, ioVars,
                   lexVars, parseVars, loops, finished>>

\* `command.interpret(state)` on an Iteration: the call
RunIteration ==
    /\ AtCommand
    /\ Command[1] = "Iteration"
    /\ exec' = Append(exec, Frame(Command[2], 0))
    /\ loops' = Append(loops, [entry |-> StateOf, ran |-> FALSE])
    /\ UNCHANGED <<pureVars, imageVars, pixels, writeVars, readVars, ioVars,
                   lexVars, parseVars, memory, pointer, input, output,
                   operator, ipc, finished>>

\* mutant: the body runs once before the first test
RunWhile_body_first ==
    /\ AtWhile
    /\ IF ~InBounds
       THEN /\ ipc' = "panic"
            /\ UNCHANGED <<exec, loops, finished>>
       ELSE IF memory[pointer] # 0 \/ ~loops[Len(loops)].ran
       THEN /\ exec' = [exec EXCEPT ![Len(exec)].next = 1]
            /\ loops' = [loops EXCEPT ![Len(loops)].ran = TRUE]
            /\ UNCHANGED <<ipc, finished>>
       ELSE /\ exec' = Advanced(SubSeq(exec, 1, Len(exec) - 1))
            /\ loops' = SubSeq(loops, 1, Len(loops) - 1)
            /\ finished' = Some([entry |-> loops[Len(loops)].entry,
                                 ran |-> loops[Len(loops)].ran,
                                 exit |-> StateOf])
            /\ ipc' = ipc
    /\ UNCHANGED <<pureVars, imageVars, pixels, writeVars, readVars, ioVars,
                   lexVars, parseVars, memory, pointer, input, output,
                   operator>>

\* `while state.memory[state.pointer] != 0`: the index aborts, or the body
\* is run, or Iteration::interpret returns and the caller goes on
RunWhile ==
    /\ AtWhile
    /\ IF ~InBounds
       THEN /\ ipc' = "panic"
            /\ UNCHANGED <<exec, loops, finished>>
       ELSE IF memory[pointer] # 0
       THEN /\ exec' = [exec EXCEPT ![Len(exec)].next = 1]
            /\ loops' = [loops EXCEPT ![Len(loops)].ran = TRUE]
            /\ UNCHANGED <<ipc, finished>>
       ELSE /\ exec' = Advanced(SubSeq(exec, 1, Len(exec) - 1))
            /\ loops' = SubSeq(loops, 1, Len(loops) - 1)
            /\ finished' = Some([entry |-> loops[Len(loops)].entry,
                                 ran |-> loops[Len(loops)].ran,
                                 exit |-> StateOf])
            /\ ipc' = ipc
    /\ UNCHANGED <<pureVars, imageVars, pixels, writeVars, readVars, ioVars,
                   lexVars, parseVars, memory, pointer, input, output,
                   operator>>

\* the Program::interpret of the whole program returns
RunFinish ==
    /\ ipc = "run"
    /\ Len(exec) = 1
    /\ ExecTop.next > Len(ExecTop.commands)
    /\ ipc' = "done"
    /\ UNCHANGED <<pureVars, imageVars, pixels, writeVars, readVars, ioVars,
                   lexVars, parseVars, memory, pointer, input, output,
                   operator, execVars>>

NextRun ==
    \/ RunOperator
    \/ RunIteration
    \/ RunWhile
    \/ RunFinish

SpecRun == InitRun /\ [][NextRun]_vars

(***************************************************************************)
(* Properties.                                                             *)
(***************************************************************************)
\* |x - y|
Delta(x, y) == IF x >= y THEN x - y ELSE y - x

\* a pixel pair carries distance d: every channel differs by d, d in the band
Carries(a, b, d) ==
    /\ d \in 10..18
    /\ \A c \in 1..4 : Delta(a[c], b[c]) = d

CarriesAny(a, b) == \E d \in 10..18 : Carries(a, b, d)

\* the fixed order of the kinds over the distances 10..18
KindOrder == <<"Increment", "Decrement", "Right", "Left", "LoopStart",
               "LoopEnd", "PutChar", "ReadChar", "EOF">>

\* C2: kind_to_distance maps the kinds to 10..18 in the fixed order
\* Increment, Decrement, MoveRight, MoveLeft, LoopStart, LoopEnd, Output,
\* Input, EndOfProgram; distance_to_kind of that distance is the same kind
\* (payload ignored); and for every d in 10..18 kind_to_distance of
\* distance_to_kind(d) is d.
C2_KindDistanceBijection ==
    /\ (call.fn = "kind_to_distance" /\ ret # Pending) =>
        /\ IsOk(ret)
        /\ \E n \in 1..9 : KindOrder[n] = Tag(call.kind) /\ ret[2] = 9 + n
        /\ \A o \in distance_to_kind(ret[2]) :
            IsSome(o) /\ Tag(o[2]) = Tag(call.kind)
    /\ (call.fn = "distance_to_kind" /\ call.distance \in 10..18
            /\ ret # Pending) =>
        /\ IsSome(ret)
        /\ kind_to_distance(ret[2]) = call.distance

C2_Witness ==
    /\ call.fn = "kind_to_distance"
    /\ Tag(call.kind) = "Left"
    /\ ret = Ok(13)

\* C3: pixel_distance(a, b) is Some(d) exactly when the four channel
\* differences of a and b all equal d and 10 <= d <= 18, and None for every
\* other pair.
C3_PixelDistanceIffCommonDelta ==
    (call.fn = "pixel_distance" /\ ret # Pending) =>
        /\ \A d \in Channel : (ret = Some(d)) <=> Carries(call.a, call.b, d)
        /\ (ret = None) <=> ~CarriesAny(call.a, call.b)

C3_Witness ==
    /\ call.fn = "pixel_distance"
    /\ ret = Some(18)
    /\ call.a[1] > call.b[1]
    /\ call.a[2] < call.b[2]

\* C4: for every pixel p and distance d in 10..18, encoded_pixel(d, p) does
\* not overflow or underflow a channel, every channel of the result differs
\* from that of p by exactly d, and pixel_distance(p, result) is Some(d).
C4_EncodedPixelExactDistance ==
    (call.fn = "encoded_pixel" /\ ret # Pending) =>
        /\ IsOk(ret)
        /\ \A c \in 1..4 :
            /\ ret[2][c] \in Channel
            /\ Delta(ret[2][c], call.values[c]) = call.distance
        /\ pixel_distance(call.values, ret[2]) = Some(call.distance)

C4_Witness ==
    /\ call.fn = "encoded_pixel"
    /\ IsOk(ret)
    /\ call.values[1] + call.distance = U8_MAX
    /\ ret[2][1] = call.values[1] - call.distance
    /\ ret[2][2] = call.values[2] + call.distance

\* the pairs (pixel k, pixel k + 1) of an image, named by k
Pairs(img) == 0..(Len(img) - 2)
PairCarries(img, k) == CarriesAny(img[k + 1], img[k + 2])
SignatureFree(img) == \A k \in Pairs(img) : ~PairCarries(img, k)

Range(f) == {f[x] : x \in DOMAIN f}
KindsOf(toks) == [j \in 1..Len(toks) |-> toks[j].kind]

\* the pixels a token takes: one, plus its repeat count
SpanOf(kind) == IF HasCount(kind) THEN 1 + kind[2] ELSE 1
TotalSpan(kinds) ==
    LET sum[n \in 0..Len(kinds)] ==
            IF n = 0 THEN 0 ELSE sum[n - 1] + SpanOf(kinds[n])
    IN  sum[Len(kinds)]

\* the stream ends with EOF and holds no other
EndsWithOnlyEof(kinds) ==
    /\ Len(kinds) > 0
    /\ \A j \in 1..Len(kinds) : (Tag(kinds[j]) = "EOF") <=> (j = Len(kinds))

\* C1: for a base image without signatures and a token stream whose total
\* span does not exceed the pixels the image can carry (all but pixel 0,
\* which only serves as reference), read of the image written by write
\* returns the kinds and repeat counts of the stream, in order.
C1_RoundTrip ==
    (/\ wpc = "done"
     /\ rpc \in {"done", "panic"}
     /\ SignatureFree(base)
     /\ TotalSpan(tokens) <= Len(base) - 1)
    => (rpc = "done" /\ KindsOf(out) = tokens)

\* C5: when write has finished, no filler pair (s + 1, s + 2), ...,
\* (s + n, s + n + 1) that exists in the image, of a token with repeat count
\* n > 0 taken at cursor s, carries a signature, whatever the base image.
C5_FillerPairsCarryNoSignature ==
    wpc = "done" =>
        \A j \in 1..Len(starts) :
            (HasCount(tokens[j]) /\ tokens[j][2] > 0) =>
                \A m \in 1..tokens[j][2] :
                    (starts[j] + m + 1 < Len(pixels)) =>
                        ~PairCarries(pixels, starts[j] + m)

\* a filler pixel of some token was changed to break a signature
C5_Witness ==
    /\ wpc = "done"
    /\ \E j \in 1..Len(starts) :
        /\ HasCount(tokens[j])
        /\ \E m \in 1..tokens[j][2] :
            /\ starts[j] + m + 1 < Len(pixels)
            /\ pixels[starts[j] + m + 2] # base[starts[j] + m + 2]

PairDistance(img, k, d) == Carries(img[k + 1], img[k + 2], d)
\* the pairs read has compared so far
ScannedPairs == {k \in Pairs(pixels) : k < pos}
DistanceOf(tag) == 9 + (CHOOSE n \in 1..9 : KindOrder[n] = tag)

\* C6: once the decoder has met a pair carrying distance 18 it has stopped
\* scanning there with EndOfProgram emitted as the last token of the stream,
\* and no token of the stream began at a later pair.
C6_EofEmittedAndLast ==
    \A k \in ScannedPairs :
        PairDistance(pixels, k, 18) =>
            /\ pos = k + 1
            /\ rpc \in {"flush", "done"}
            /\ Len(out) > 0
            /\ Tag(out[Len(out)].kind) = "EOF"
            /\ began[Len(out)] = k
            /\ \A j \in 1..(Len(out) - 1) :
                began[j] < k /\ Tag(out[j].kind) # "EOF"

\* C6 where read does not abort: the same, in every state but the abort
\* of the flush that precedes the emission.
C6_EofLastUnlessAborted ==
    \A k \in ScannedPairs :
        PairDistance(pixels, k, 18) =>
            /\ pos = k + 1
            /\ rpc \in {"flush", "done", "panic"}
            /\ rpc # "panic" =>
                /\ Len(out) > 0
                /\ Tag(out[Len(out)].kind) = "EOF"
                /\ began[Len(out)] = k
                /\ \A j \in 1..(Len(out) - 1) :
                    began[j] < k /\ Tag(out[j].kind) # "EOF"

\* how many consecutive pairs, from pair k on, carry the distance of pair k
SameSignatureRun(img, k) ==
    LET d == CHOOSE x \in 10..18 : PairDistance(img, k, x)
        same(m) == (k + m) \in Pairs(img) /\ PairDistance(img, k + m, d)
    IN  CHOOSE n \in 1..Len(img) :
            (\A m \in 0..(n - 1) : same(m)) /\ ~same(n)

\* C7 as claimed: the repeat count of a decoded run token is the number of
\* consecutive same-signature pairs from the one that introduced it, minus
\* one: consecutive identical signatures accumulate into one token.
C7_CountIsSameSignaturePairs ==
    \A j \in 1..Len(out) :
        HasCount(out[j].kind) =>
            out[j].kind[2] = SameSignatureRun(pixels, began[j]) - 1

\* C7 as amended: a decoded run token began at a pair carrying its kind's
\* distance, and its repeat count c is the number of signature-free pairs
\* that follow that pair: the c pairs after it carry no signature and the
\* pair after those, if the image has one, carries a signature (of any
\* kind, the same one included); an open run counts the signature-free
\* pairs scanned since it was opened, from 0.
C7_CountIsSignatureFreePairs ==
    /\ \A j \in 1..Len(out) :
        LET kind == out[j].kind
            s == began[j]
        IN  /\ s \in ScannedPairs
            /\ PairDistance(pixels, s, DistanceOf(Tag(kind)))
            /\ HasCount(kind) =>
                /\ \A m \in 1..kind[2] :
                    (s + m) \in ScannedPairs /\ ~PairCarries(pixels, s + m)
                /\ (s + kind[2] + 1) \in Pairs(pixels) =>
                    PairCarries(pixels, s + kind[2] + 1)
    /\ (IsSome(stacking_token) /\ rpc \in {"scan", "flush"}) =>
        /\ HasCount(stacking_token[2])
        /\ PairDistance(pixels, opened, DistanceOf(Tag(stacking_token[2])))
        /\ stacking_token[2][2] = Cardinality({k \in ScannedPairs : k > opened})
        /\ \A k \in ScannedPairs : k > opened => ~PairCarries(pixels, k)

\* two tokens from two consecutive identical signatures, one with a count
C7_Witness ==
    /\ rpc = "done"
    /\ \E j \in 1..(Len(out) - 1) :
        /\ HasCount(out[j].kind)
        /\ Tag(out[j + 1].kind) = Tag(out[j].kind)
        /\ began[j + 1] = began[j] + 1
        /\ out[j + 1].kind[2] > 0

\* C9: read of an image with no pixel, or with no pair carrying a signature,
\* opens no run, pushes no token and does not abort: it returns an empty
\* token stream.
C9_SignatureFreeDecodesEmpty ==
    (rpc \in {"scan", "flush", "done", "panic"} /\ SignatureFree(pixels)) =>
        /\ rpc # "panic"
        /\ stacking_token = None
        /\ out = <<>>

C9_Witness ==
    /\ rpc = "done"
    /\ Len(pixels) > 2
    /\ SignatureFree(pixels)
    /\ \E k \in Pairs(pixels) : Delta(pixels[k + 1][1], pixels[k + 2][1]) = 10
    /\ out = <<>>

\* C10: every token of the decoded stream carries the zero-based position
\* (k div width, k mod width) of the pixel k at which it began, also when a
\* run crosses a row boundary.
C10_PositionIsStartPixel ==
    \A j \in 1..Len(out) :
        out[j].position = Position(began[j] \div width, began[j] % width)

\* C11: distance_to_kind(d) returns None, without aborting, for every 8-bit
\* d below 10 or above 18, and for d in 10..18 returns Some(kind), the
\* payload of a count-bearing kind being 0.
C11_DistanceToKindTotal ==
    (call.fn = "distance_to_kind" /\ ret # Pending) =>
        IF call.distance \in MINIMUM_PIXEL_DISTANCE..MAXIMUM_PIXEL_DISTANCE
        THEN /\ IsSome(ret)
             /\ HasCount(ret[2]) => ret[2][2] = 0
        ELSE ret = None

\* C11 above the band, and below it in a build without overflow checks:
\* whenever the call returns, it returns as C11 says.
C11_DistanceToKindWhereItReturns ==
    (call.fn = "distance_to_kind" /\ ret \notin {Pending, Panic}) =>
        IF call.distance \in MINIMUM_PIXEL_DISTANCE..MAXIMUM_PIXEL_DISTANCE
        THEN /\ IsSome(ret)
             /\ HasCount(ret[2]) => ret[2][2] = 0
        ELSE ret = None

\* what write returns for its paths and the files it finds
WriteOutcome ==
    IF ~ends_with(input_path, PNG) \/ ~ends_with(output_path, PNG)
    THEN Err("InvalidFileExtension")
    ELSE IF fs[input_path] = Missing THEN Err("FileNotFound")
    ELSE IF fs[input_path] = Garbage THEN Err("DecodeFailed")
    ELSE IF ~writable THEN Err("SaveFailed")
    ELSE Ok(Unit)

\* the file operations write attempts before it returns r
WriteOps(r) ==
    LET open == FileOp("write", "open", input_path)
        decode == FileOp("write", "decode", input_path)
        save == FileOp("write", "save", output_path)
    IN  CASE r = Err("InvalidFileExtension") -> <<>>
          [] r = Err("FileNotFound") -> <<open>>
          [] r = Err("DecodeFailed") -> <<open, decode>>
          [] OTHER -> <<open, decode, save>>

\* C12: read returns InvalidFileExtension, having opened nothing, exactly
\* when its path does not end in .png, and otherwise fails with FileNotFound
\* or DecodeFailed as the file is absent or does not decode; write returns
\* InvalidFileExtension, having opened and saved nothing, exactly when its
\* input or its output path does not end in .png, and otherwise the first
\* step that fails decides its error, in the order open, decode, save; a save
\* is attempted only when the encoder loop has ended (seen before read
\* loads its own image), and a write that fails leaves every file as it was.
C12_ExtensionErrorsBeforeIO ==
    /\ rpc # "entry" =>
        /\ (rret = Err("InvalidFileExtension")) <=> ~ends_with(path, PNG)
        /\ rret = Err("InvalidFileExtension") => OpsOf("read") = <<>>
        /\ ends_with(path, PNG) =>
            /\ (rret = Err("FileNotFound")) <=> (fs[path] = Missing)
            /\ (rret = Err("DecodeFailed")) <=> (fs[path] = Garbage)
            /\ rret = Err("FileNotFound") =>
                OpsOf("read") = <<FileOp("read", "open", path)>>
    /\ wpc \in {"done", "error"} =>
        /\ wret = WriteOutcome
        /\ OpsOf("write") = WriteOps(wret)
    /\ wpc \in {"loop", "filler"} =>
        /\ wret = Pending
        /\ OpsOf("write") = <<FileOp("write", "open", input_path),
                              FileOp("write", "decode", input_path)>>
    /\ ((\E n \in 1..Len(io) : io[n][2] = "save") /\ rpc = "entry") =>
        /\ wpc \in {"done", "error"}
        /\ amount = 0
        /\ (i >= Len(pixels) \/ i + 1 >= Len(pixels) \/ taken >= Len(tokens))
    /\ wret # Ok(Unit) =>
        \A p \in DOMAIN fs : fs[p] \in IOFiles

\* a write that encoded its whole stream and failed to save, then a read
\* refused for its extension
C12_Witness ==
    /\ wret = Err("SaveFailed")
    /\ taken = Len(tokens)
    /\ taken > 1
    /\ rret = Err("InvalidFileExtension")
    /\ Len(io) = 3

\* the token kind each program character stands for
CharKind ==
    [c \in StackChars \cup StructuralChars |->
        CASE c = "+" -> "Increment"
          [] c = "-" -> "Decrement"
          [] c = ">" -> "Right"
          [] c = "<" -> "Left"
          [] c = "." -> "PutChar"
          [] c = "," -> "ReadChar"
          [] c = "[" -> "LoopStart"
          [] c = "]" -> "LoopEnd"]

\* character k of text starts a maximal run of one stacking character
IsRunStart(text, k) ==
    /\ text[k] \in StackChars
    /\ (k = 1 \/ text[k - 1] # text[k])

\* the length of the maximal run of equal characters that starts at k
RunLength(text, k) ==
    CHOOSE n \in 1..Len(text) :
        /\ \A m \in 0..(n - 1) : k + m <= Len(text) /\ text[k + m] = text[k]
        /\ ~(k + n <= Len(text) /\ text[k + n] = text[k])

\* one token per maximal run and per structural character, in source order
ExpectedKinds(text) ==
    LET upto[n \in 0..Len(text)] ==
            IF n = 0 THEN <<>>
            ELSE IF IsRunStart(text, n)
            THEN Append(upto[n - 1],
                        Counted(CharKind[text[n]], RunLength(text, n)))
            ELSE IF text[n] \in StructuralChars
            THEN Append(upto[n - 1], Plain(CharKind[text[n]]))
            ELSE upto[n - 1]
    IN  upto[Len(text)]

Recognized(text) == \A k \in 1..Len(text) : text[k] \in RecognizedChars

\* C13: for a program text of recognized characters only, scan_tokens
\* returns, in source order, one token per maximal run of equal characters
\* among + - > < with the run's length as repeat count, and one structural
\* token per . , [ ], followed by EOF.
C13_LexerStacking ==
    (lret # Pending /\ Recognized(inner)) =>
        /\ IsOk(lret)
        /\ KindsOf(lret[2]) = ExpectedKinds(inner) \o <<Plain("EOF")>>

\* two runs of the same character, parted by a blank, give two tokens
C13_Witness ==
    /\ IsOk(lret)
    /\ Len(inner) = 4
    /\ inner[3] = " "
    /\ KindsOf(lret[2]) = <<Counted("Increment", 2), Counted("Increment", 1),
                            Plain("EOF")>>

\* the indices of the unrecognized characters of text, in order
Unrecognized(text) ==
    SelectSeq([n \in 1..Len(text) |-> n],
              LAMBDA n : text[n] \notin RecognizedChars)

\* the position scan_tokens holds at character k: the line breaks before
\* it, and its place in the line counted from 1
PositionOf(text, k) ==
    LET breaks == {n \in 1..(k - 1) : text[n] = "\n"}
        last == IF breaks = {} THEN 0
                ELSE CHOOSE n \in breaks : \A m \in breaks : m <= n
    IN  Position(Cardinality(breaks), k - last)

\* C14: scan_tokens returns only when every character has been scanned; for
\* a text with m > 0 unrecognized characters it returns Err of exactly m
\* diagnostics, the j-th naming the j-th unrecognized character and its
\* position, and no tokens; it returns Ok(tokens) only when m = 0.
C14_LexerCollectsAllErrors ==
    lret # Pending =>
        LET bad == Unrecognized(inner) IN
        /\ chars = <<>>
        /\ IsOk(lret) <=> Len(bad) = 0
        /\ Len(bad) > 0 =>
            /\ lret[1] = "Err"
            /\ Len(lret[2]) = Len(bad)
            /\ \A j \in 1..Len(bad) :
                lret[2][j] = <<PositionOf(inner, bad[j]),
                               "Unrecognized character: ", inner[bad[j]]>>

\* two diagnostics, the second on a later line, tokens scanned in between
C14_Witness ==
    /\ lret[1] = "Err"
    /\ Len(lret[2]) = 2
    /\ lret[2][2][1] = Position(1, 2)
    /\ Len(lex_tokens) > 1

\* how many LoopStart are open after each prefix of kinds, a LoopEnd that
\* finds none open leaving the count at 0
OpenLoops(kinds) ==
    LET depth[n \in 0..Len(kinds)] ==
            IF n = 0 THEN 0
            ELSE IF Tag(kinds[n]) = "LoopStart" THEN depth[n - 1] + 1
            ELSE IF Tag(kinds[n]) = "LoopEnd" /\ depth[n - 1] > 0
            THEN depth[n - 1] - 1
            ELSE depth[n - 1]
    IN  depth

\* the LoopEnd tokens that close no LoopStart
UnmatchedEnds(kinds) ==
    {n \in 1..Len(kinds) :
        Tag(kinds[n]) = "LoopEnd" /\ OpenLoops(kinds)[n - 1] = 0}

\* how many LoopStart tokens no LoopEnd closes
UnmatchedStarts(kinds) == OpenLoops(kinds)[Len(kinds)]

ProperlyNested(kinds) ==
    UnmatchedEnds(kinds) = {} /\ UnmatchedStarts(kinds) = 0

\* the tokens of a tree, in order
RECURSIVE Flatten(_)
Flatten(program) ==
    IF program = <<>>
    THEN <<>>
    ELSE LET command == Head(program)
         IN  (IF command[1] = "Operator"
              THEN <<command[2]>>
              ELSE <<Plain("LoopStart")>> \o Flatten(command[2])
                   \o <<Plain("LoopEnd")>>)
             \o Flatten(Tail(program))

\* the kinds handed to the parser, without the closing EOF
ParsedBody == SubSeq(KindsOf(parser_tokens), 1, Len(parser_tokens) - 1)
ParseReturned ==
    pret # Pending /\ EndsWithOnlyEof(KindsOf(parser_tokens))
ExpectedLoopEnd == SelectSeq(errors, LAMBDA e : e[2] = <<"Expected ']'">>)

\* C15 as claimed: for a token stream ending in its only EOF, parse returns
\* a tree exactly when LoopStart and LoopEnd are properly nested; every
\* unmatched LoopStart gives one "Expected ']'" diagnostic; and the first
\* unmatched LoopEnd and every token after it give one "Unexpected token"
\* diagnostic each.
C15_EveryUnmatchedLoopStartExpected ==
    ParseReturned =>
        /\ IsOk(pret) <=> ProperlyNested(ParsedBody)
        /\ Len(ExpectedLoopEnd) = UnmatchedStarts(ParsedBody)
        /\ \A u \in UnmatchedEnds(ParsedBody) :
            \A j \in u..Len(ParsedBody) :
                \E n \in 1..Len(errors) :
                    errors[n] = <<parser_tokens[j].position,
                                  <<"Unexpected token", display(ParsedBody[j])>>>>

\* C15 as amended: for a token stream ending in its only EOF, parse returns
\* the tree of the tokens exactly when LoopStart and LoopEnd are properly
\* nested, and Err of its diagnostics otherwise; with no unmatched LoopEnd
\* the diagnostics are one "Expected ']'" per unmatched LoopStart, each at
\* the position of EOF; with an unmatched LoopEnd they are one "Unexpected
\* token" for the first such LoopEnd and for every token after it up to
\* EOF, LoopStart tokens included, in order, and no "Expected ']'".
C15_ParseDiagnostics ==
    ParseReturned =>
        LET body == ParsedBody
            ends == UnmatchedEnds(body)
            eof == parser_tokens[Len(parser_tokens)]
        IN  /\ pret # Panic
            /\ IsOk(pret) <=> ProperlyNested(body)
            /\ IsOk(pret) => Flatten(pret[2]) = body
            /\ ~IsOk(pret) => pret = Err(errors)
            /\ IF ends = {}
               THEN errors = [j \in 1..UnmatchedStarts(body) |->
                                <<eof.position, <<"Expected ']'">>>>]
               ELSE LET u == CHOOSE n \in ends : \A m \in ends : n <= m
                    IN  errors = [j \in 1..(Len(body) - u + 1) |->
                                    <<parser_tokens[u + j - 1].position,
                                      <<"Unexpected token",
                                        display(body[u + j - 1])>>>>]

\* a LoopStart after an unmatched LoopEnd is reported as unexpected, and a
\* loop before it was parsed
C15_Witness ==
    /\ ParseReturned
    /\ pret[1] = "Err"
    /\ Len(errors) = 2
    /\ errors[2][2] = <<"Unexpected token", "[">>
    /\ Len(parser_tokens) = 5

\* the cell Increment(v) or Decrement(v) is to leave where it found c
Wrapped(kind, c) ==
    IF Tag(kind) = "Increment"
    THEN (c + kind[2]) % 256
    ELSE (c + 512 - kind[2]) % 256

\* interpret of an Increment or a Decrement is called on a cell of the memory
ArithmeticStep ==
    /\ ipc = "call"
    /\ ipc' # "call"
    /\ InBounds
    /\ Tag(operator'[2]) \in {"Increment", "Decrement"}

\* C16: interpret of Increment(v) (of Decrement(v)) on a cell holding c does
\* not fail and leaves (c + v) mod 256 (resp. (c - v) mod 256) in that cell,
\* for every c in 0..255 and every count v, every other cell, the pointer,
\* the input and the output being unchanged.
C16_IncrementDecrementWrap ==
    [][ArithmeticStep =>
        /\ ipc' = "done"
        /\ memory' = [memory EXCEPT
                        ![pointer] = Wrapped(operator'[2], memory[pointer])]
        /\ UNCHANGED <<pointer, input, output>>]_vars

\* C16 where interpret returns: the cell wraps as claimed, nothing else
\* changes; and it fails to return only when c + (v mod 256) leaves 0..255.
C16_WrapsWhereItReturns ==
    [][ArithmeticStep =>
        LET c == memory[pointer]
            v == as_u8(operator'[2][2])
            fits == IF Tag(operator'[2]) = "Increment"
                    THEN c + v <= U8_MAX
                    ELSE c - v >= 0
        IN  /\ ipc' = "done" =>
                memory' = [memory EXCEPT ![pointer] = Wrapped(operator'[2], c)]
            /\ ipc' = "panic" => (~fits /\ memory' = memory)
            /\ fits => ipc' = "done"
            /\ UNCHANGED <<pointer, input, output>>]_vars

\* the tokens before token j
Before(j) == SubSeq(tokens, 1, j - 1)

FillerStep ==
    /\ wpc = "filler"
    /\ wpc' = "filler"
    /\ i' = i + 1

\* C18: a filler step changes pixel i + 2 only if the pair of pixel i + 1
\* and pixel i + 2, as the buffer holds them at that step, carries a
\* signature, and then only its first channel, by +1 if it is at most 127
\* and by -1 otherwise; its other channels, every other pixel, and a filler
\* pixel whose pair carries no signature stay as they are.
C18_FillerPerturbationRule ==
    [][FillerStep =>
        LET pixel == pixels[i + 2]
            next_pixel == pixels[i + 3]
            r == next_pixel[1]
        IN  pixels' =
                IF CarriesAny(pixel, next_pixel)
                THEN [pixels EXCEPT
                        ![i + 3] = <<IF r <= 127 THEN r + 1 ELSE r - 1,
                                     next_pixel[2], next_pixel[3],
                                     next_pixel[4]>>]
                ELSE pixels]_vars

\* a filler pixel whose first channel was 128 had it lowered to 127, the
\* other channels as loaded
C18_Witness ==
    /\ wpc = "done"
    /\ \E k \in 3..Len(pixels) :
        /\ base[k] = <<128, 128, 128, 200>>
        /\ pixels[k] = <<127, 128, 128, 200>>
        /\ \E j \in 1..taken :
            HasCount(tokens[j]) /\ starts[j] + 2 <= k - 1
                /\ k - 1 <= starts[j] + 1 + tokens[j][2]

\* C19: the encoder loop ends, without aborting, for every image and token
\* stream; a token is taken at most once and only while pixel i + 1 exists;
\* when the loop has ended, no pixel past the cursor has been touched, and
\* tokens are left untaken only if pixel i + 1 does not exist.
C19_EncodingTerminates ==
    /\ [](/\ wpc # "panic"
          /\ taken <= Len(tokens)
          /\ \A j \in 1..Len(starts) : \A k \in 1..(j - 1) : starts[k] < starts[j])
    /\ [][taken' # taken => (taken' = taken + 1 /\ i + 1 < Len(pixels))]_vars
    /\ [](wpc = "done" =>
            /\ \A k \in 1..Len(pixels) : k - 1 > i => pixels[k] = base[k]
            /\ taken < Len(tokens) => i + 1 >= Len(pixels))
    /\ <>(wpc = "done")

\* the pixels ran out in the middle of a filler run: the run is cut short
\* and the tokens after it are dropped
C19_Witness ==
    /\ wpc = "done"
    /\ taken > 0
    /\ taken < Len(tokens)
    /\ HasCount(tokens[taken])
    /\ starts[taken] + tokens[taken][2] + 1 > Len(pixels) - 1

\* C20: the encoder never changes pixel 0, nor a pixel whose index exceeds
\* the total span of the tokens it has taken, nor the number of pixels; the
\* image it saves has the width and height of the one it loaded.
C20_EncoderFrame ==
    /\ Len(pixels) = Len(base)
    /\ Len(pixels) = width * height
    /\ Len(pixels) > 0 => pixels[1] = base[1]
    /\ \A k \in 1..Len(pixels) :
        k - 1 > TotalSpan(Before(taken + 1)) => pixels[k] = base[k]
    /\ wpc = "done" =>
        /\ fs[output_path] = ImageFile(fs[input_path][2], fs[input_path][3], pixels)
        /\ fs[input_path] = ImageFile(width, height, base)

\* every token was written and changed a pixel, and pixels are left past
\* the span of the stream
C20_Witness ==
    /\ wpc = "done"
    /\ taken = Len(tokens)
    /\ taken > 1
    /\ TotalSpan(tokens) < Len(pixels) - 1
    /\ pixels[TotalSpan(tokens) + 1] # base[TotalSpan(tokens) + 1]

(***************************************************************************)
(* C21: the position arithmetic of read.                                   *)
(***************************************************************************)
\* C21: read never aborts: on every image, the offset column - count - 1 of
\* every run it flushes, inside the loop and after it, is at least zero, so
\* read returns a token stream whose offsets are all natural numbers.
C21_ReadNeverAborts ==
    /\ rpc # "panic"
    /\ \A j \in 1..Len(out) : out[j].position[2] >= 0

\* C21 where the run is flushed in the row it began in: the offset is the
\* column the run began at, and read does not abort there; an abort is the
\* flush of a run after the column was reset at the end of a row.
C21_AbortOnlyAcrossRows ==
    rpc = "panic" =>
        /\ IsSome(stacking_token)
        /\ width > 0
        /\ opened \div width < pos \div width

(***************************************************************************)
(* C22: Parser::parse on the token vector read returned.                   *)
(***************************************************************************)
HasEof(toks) == \E j \in 1..Len(toks) : Tag(toks[j].kind) = "EOF"

\* C22: on every token vector that read returned and that is not empty, the
\* parser never indexes the vector past its end: while parse runs, current
\* indexes a token, and parse does not abort.
C22_ParseStaysInBounds ==
    frames # <<>> =>
        /\ pret # Panic
        /\ pret = Pending => current < Len(parser_tokens)

\* C22 on a vector that holds EOF: parse stays within the vector; and parse
\* returns a tree or diagnostics only on such a vector, so on a vector
\* without EOF it always runs past the end.
C22_InBoundsIffEofDecoded ==
    frames # <<>> =>
        /\ HasEof(parser_tokens) =>
            (pret # Panic /\ current < Len(parser_tokens))
        /\ pret \notin {Pending, Panic} => HasEof(parser_tokens)

(***************************************************************************)
(* C23: the EOF of scan_tokens.                                            *)
(***************************************************************************)
EofCount(toks) == Cardinality({j \in 1..Len(toks) : Tag(toks[j].kind) = "EOF"})

\* C23: every token vector scan_tokens returns as Ok, for any text and for
\* the empty one, ends with EOF and holds EOF exactly once; and the parser
\* run on it always indexes a token, so that its end test is met before the
\* end of the vector.
C23_LexerEndsWithOneEof ==
    /\ IsOk(lret) =>
        /\ Len(lret[2]) > 0
        /\ Tag(lret[2][Len(lret[2])].kind) = "EOF"
        /\ EofCount(lret[2]) = 1
    /\ (frames # <<>> /\ pret = Pending) => current < Len(parser_tokens)
    /\ pret \notin {Pending, Panic} => (at_end /\ current = Len(parser_tokens) - 1)

\* a text with a loop and a stacked run: three tokens and the EOF, and the
\* parser has returned a tree at the EOF
C23_Witness ==
    /\ inner = <<"[", "+", "+", "]">>
    /\ IsOk(lret)
    /\ Len(lret[2]) = 4
    /\ IsOk(pret)
    /\ current = 3

\* the empty text gives the vector that holds EOF alone
C23_WitnessEmpty ==
    /\ inner = <<>>
    /\ IsOk(lret)
    /\ Len(lret[2]) = 1
    /\ IsOk(pret)

(***************************************************************************)
(* C24: Iteration::interpret.                                              *)
(***************************************************************************)
\* the cell under the pointer of a State, which indexes its memory
CellOf(st) == st.memory[st.pointer]

\* a step that starts a run of the body of the innermost loop
BodyStarts ==
    /\ AtWhile
    /\ Len(exec') = Len(exec)
    /\ exec'[Len(exec')].next = 1

\* a step on which the innermost loop finishes
LoopEnds ==
    /\ AtWhile
    /\ Len(exec') = Len(exec) - 1

\* C24: the body of a loop starts to run only on a test that found the cell
\* under the pointer non-zero, and the test changes nothing of the State; a
\* loop finishes only on a test that found that cell 0, so the cell under
\* the pointer is 0 when a loop has finished; a loop entered on a cell equal
\* to 0 finishes without a run of its body, and a loop that finishes without
\* one leaves memory, pointer, input and output as they were at its entry.
C24_LoopSemantics ==
    /\ [][BodyStarts =>
            /\ InBounds
            /\ memory[pointer] # 0
            /\ UNCHANGED <<memory, pointer, input, output>>]_vars
    /\ [][LoopEnds =>
            /\ InBounds
            /\ memory[pointer] = 0
            /\ UNCHANGED <<memory, pointer, input, output>>]_vars
    /\ [](IsSome(finished) =>
            LET loop == finished[2]
            IN  /\ loop.exit.pointer \in DOMAIN loop.exit.memory
                /\ CellOf(loop.exit) = 0
                /\ loop.entry.pointer \in DOMAIN loop.entry.memory
                /\ CellOf(loop.entry) = 0 <=> ~loop.ran
                /\ ~loop.ran => loop.exit = loop.entry)

\* a loop around a Decrement and a PutChar, entered on a cell equal to 2, has
\* run its body and finished: two bytes are written and the cell is 0
C24_Witness ==
    /\ ipc = "done"
    /\ IsSome(finished)
    /\ finished[2].ran
    /\ CellOf(finished[2].entry) = 2
    /\ output = <<1, 0>>
    /\ memory[pointer] = 0

\* a loop around a ReadChar and a PutChar, entered on a cell equal to 0 with
\* a byte of input left, has finished: nothing is read and nothing written
C24_WitnessZero ==
    /\ ipc = "done"
    /\ IsSome(finished)
    /\ ~finished[2].ran
    /\ exec[1].commands =
        <<Iteration(<<Operator(Plain("ReadChar")), Operator(Plain("PutChar"))>>)>>
    /\ input = <<65>>
    /\ output = <<>>

====
